---- MODULE Spec2Model ----
(***************************************************************************)
(* Model of image_metadata_extractor.tsx: the binary metadata decoder      *)
(* (byte reads over a DataView, the TIFF/IFD walker, the JPEG/TIFF         *)
(* container sniffers) and the batch handler of the React component.       *)
(*                                                                         *)
(* A DataView is a sequence of bytes; the byte at offset o is buf[o + 1].  *)
(* A call that can raise a RangeError returns a record [thr, val]: thr is  *)
(* TRUE when the call throws.  JS numbers are doubles, so no sum or        *)
(* product of 32-bit fields wraps around; the inputs keep every 32-bit     *)
(* field below 2^31 so that the same holds of the integers used here.      *)
(***************************************************************************)
EXTENDS Integers, Sequences, FiniteSets, TLC

VARIABLES
    buf,        \* the DataView handed to the getTagValue call under test
    tagArgs,    \* the other arguments of that call
    tagRet,     \* what the call returned (or NotCalled)
    reading,    \* the file handed to extractMetadata
    promise,    \* the promise extractMetadata returned: pending, resolved or rejected
    extractedMetadata,  \* component state: the records on display
    status,             \* component state: the status line
    isProcessing,       \* component state: the busy flag
    calls,      \* the handleFiles invocations so far, each with its position
    download,   \* the text of the file last handed to downloadFile
    escaped     \* calls of escapeCsvValue side by side: each [value, called, ret]

vars == <<buf, tagArgs, tagRet, reading, promise, extractedMetadata, status, isProcessing, calls,
          download, escaped>>

-----------------------------------------------------------------------------
(* Decoded values.  A JS number is a reduced fraction n/d (d = 1 for the   *)
(* integers), a JS string is its sequence of char codes, a string literal  *)
(* of the source is kept as text.                                          *)

RECURSIVE Gcd(_, _)
Gcd(a, b) == IF b = 0 THEN a ELSE Gcd(b, a % b)

Num(x) == [k |-> "num", n |-> x, d |-> 1, s |-> <<>>, l |-> ""]
Quot(a, b) == [k |-> "num", n |-> a \div Gcd(a, b), d |-> b \div Gcd(a, b), s |-> <<>>, l |-> ""]
Str(cs) == [k |-> "str", n |-> 0, d |-> 1, s |-> cs, l |-> ""]
Lit(t) == [k |-> "lit", n |-> 0, d |-> 1, s |-> <<>>, l |-> t]
Bool(b) == [k |-> "bool", n |-> IF b THEN 1 ELSE 0, d |-> 1, s |-> <<>>, l |-> ""]
\* a template literal `text${chars}`
Template(t, cs) == [k |-> "str", n |-> 0, d |-> 1, s |-> cs, l |-> t]
Null == [k |-> "null", n |-> 0, d |-> 1, s |-> <<>>, l |-> ""]
NotANumber == [k |-> "nan", n |-> 0, d |-> 0, s |-> <<>>, l |-> ""]
Infinity == [k |-> "inf", n |-> 1, d |-> 0, s |-> <<>>, l |-> ""]

Ok(v) == [thr |-> FALSE, val |-> v]
Throw == [thr |-> TRUE, val |-> Null]
NotCalled == [thr |-> FALSE, val |-> Lit("not called")]

Min(a, b) == IF a < b THEN a ELSE b

\* the elements of seq at the 0-based positions from..(to - 1)
Slice(seq, from, to) == [i \in 1..(to - from) |-> seq[from + i]]

\* the first n elements of seq (all of seq if it is shorter)
Take(seq, n) == [i \in 1..Min(n, Len(seq)) |-> seq[i]]

-----------------------------------------------------------------------------
(* DataView reads: a read of w bytes at offset o throws a RangeError       *)
(* unless 0 <= o and o + w <= byteLength.                                  *)

byteLength(dv) == Len(dv)

InRange(dv, o, w) == o >= 0 /\ o + w <= byteLength(dv)

getUint8(dv, o) == IF InRange(dv, o, 1) THEN Ok(dv[o + 1]) ELSE Throw

getUint16(dv, o, littleEndian) ==
    IF ~InRange(dv, o, 2) THEN Throw
    ELSE IF littleEndian THEN Ok(dv[o + 1] + 256 * dv[o + 2])
    ELSE Ok(256 * dv[o + 1] + dv[o + 2])

getUint32(dv, o, littleEndian) ==
    IF ~InRange(dv, o, 4) THEN Throw
    ELSE IF littleEndian
         THEN Ok(dv[o + 1] + 256 * dv[o + 2] + 65536 * dv[o + 3] + 16777216 * dv[o + 4])
         ELSE Ok(16777216 * dv[o + 1] + 65536 * dv[o + 2] + 256 * dv[o + 3] + dv[o + 4])

-----------------------------------------------------------------------------
(* Tag value decoding.                                                     *)

TYPE_SIZES == <<1, 1, 2, 4, 8, 1, 1, 2, 4, 8, 4, 8>>

getTypeSize(type) == IF type \in DOMAIN TYPE_SIZES THEN TYPE_SIZES[type] ELSE 1

\* an offset rule that follows the pointer as soon as the value fills the field
calculateActualOffsetFromFour(dv, valueOffset, type, count, tiffOffset, isBigEndian) ==
    IF getTypeSize(type) * count >= 4
    THEN LET p == getUint32(dv, valueOffset, ~isBigEndian)
         IN IF p.thr THEN Throw ELSE Ok(tiffOffset + p.val)
    ELSE Ok(valueOffset)

\* an offset rule that takes the pointer as an offset into the whole buffer
calculateActualOffsetAbsolute(dv, valueOffset, type, count, tiffOffset, isBigEndian) ==
    IF getTypeSize(type) * count > 4
    THEN getUint32(dv, valueOffset, ~isBigEndian)
    ELSE Ok(valueOffset)

calculateActualOffset(dv, valueOffset, type, count, tiffOffset, isBigEndian) ==
    IF getTypeSize(type) * count > 4
    THEN LET p == getUint32(dv, valueOffset, ~isBigEndian)
         IN IF p.thr THEN Throw ELSE Ok(tiffOffset + p.val)
    ELSE Ok(valueOffset)

readUint16Value(dv, offset, isBigEndian) ==
    LET r == getUint16(dv, offset, ~isBigEndian)
    IN IF r.thr THEN Throw ELSE Ok(Num(r.val))

readUint32Value(dv, offset, isBigEndian) ==
    LET r == getUint32(dv, offset, ~isBigEndian)
    IN IF r.thr THEN Throw ELSE Ok(Num(r.val))

AsciiLoopCap == 100

\* a loop bound without the cap
AsciiLoopBoundUncapped(count) == count - 1

\* a loop bound that takes the terminating NUL along
AsciiLoopBoundWithNul(count) == Min(count, AsciiLoopCap)

\* the loop bound of readAsciiString
AsciiLoopBound(count) == Min(count - 1, AsciiLoopCap)

\* for (i = 0; i < bound; i++) str += fromCharCode(getUint8(offset + i)):
\* the reads go upwards, so the loop throws iff one of its reads is out of range
readAsciiString(dv, offset, count) ==
    LET bound == AsciiLoopBound(count)
        n == IF bound < 0 THEN 0 ELSE bound
    IN IF \E i \in 0..(n - 1) : getUint8(dv, offset + i).thr THEN Throw
       ELSE Ok(Str([i \in 1..n |-> getUint8(dv, offset + i - 1).val]))

\* numerator / denominator without the zero test: Infinity, or NaN for 0 / 0
RationalOfUnguarded(numerator, denominator) ==
    IF denominator # 0 THEN Quot(numerator, denominator)
    ELSE IF numerator = 0 THEN NotANumber ELSE Infinity

RationalOf(numerator, denominator) ==
    IF denominator # 0 THEN Quot(numerator, denominator) ELSE Num(0)

readRationalValue(dv, offset, isBigEndian) ==
    LET numerator == getUint32(dv, offset, ~isBigEndian)
        denominator == getUint32(dv, offset + 4, ~isBigEndian)
    IN IF numerator.thr \/ denominator.thr THEN Throw
       ELSE Ok(RationalOf(numerator.val, denominator.val))

\* a decoder whose switch treats the signed types 6, 8, 9, 10 as their unsigned twins
DecodeAtSignedAsUnsigned(dv, actualOffset, type, count, isBigEndian) ==
    CASE type = 1 \/ type = 6 -> LET b == getUint8(dv, actualOffset)
                                 IN IF b.thr THEN Throw ELSE Ok(Num(b.val))
      [] type = 2 -> readAsciiString(dv, actualOffset, count)
      [] type = 3 \/ type = 8 -> readUint16Value(dv, actualOffset, isBigEndian)
      [] type = 4 \/ type = 9 -> readUint32Value(dv, actualOffset, isBigEndian)
      [] type = 5 \/ type = 10 -> readRationalValue(dv, actualOffset, isBigEndian)
      [] OTHER -> Ok(Null)

\* the switch of getTagValue
DecodeAt(dv, actualOffset, type, count, isBigEndian) ==
    CASE type = 1 -> LET b == getUint8(dv, actualOffset)
                     IN IF b.thr THEN Throw ELSE Ok(Num(b.val))
      [] type = 2 -> readAsciiString(dv, actualOffset, count)
      [] type = 3 -> readUint16Value(dv, actualOffset, isBigEndian)
      [] type = 4 -> readUint32Value(dv, actualOffset, isBigEndian)
      [] type = 5 -> readRationalValue(dv, actualOffset, isBigEndian)
      [] OTHER -> Ok(Null)

getTagValue(dv, valueOffset, type, count, tiffOffset, isBigEndian) ==
    LET actualOffset == calculateActualOffset(dv, valueOffset, type, count, tiffOffset, isBigEndian)
    IN IF actualOffset.thr THEN Throw
       ELSE DecodeAt(dv, actualOffset.val, type, count, isBigEndian)

-----------------------------------------------------------------------------
(* Result mappings (Record<string, any>): functions from field names to    *)
(* values.                                                                 *)

EmptyMap == [name \in {} |-> Null]

Put(map, name, value) == [x \in DOMAIN map \cup {name} |-> IF x = name THEN value ELSE map[x]]

Has(map, name) == name \in DOMAIN map

\* The element of a one-element set.  Only({F(x) : x \in {e}}) is F(e) with e
\* worked out once, however often F uses it.
Only(S) == CHOOSE x \in S : TRUE

SetMin(S) == CHOOSE x \in S : \A y \in S : x <= y

SetMax(S) == CHOOSE x \in S : \A y \in S : x >= y

-----------------------------------------------------------------------------
(* The TIFF/IFD walker.                                                    *)

EXIF_TAGS ==
    [tag \in {271, 272, 274, 282, 283, 296, 306, 315, 531, 34665, 34853} |->
        CASE tag = 271 -> "Make"
          [] tag = 272 -> "Model"
          [] tag = 274 -> "Orientation"
          [] tag = 282 -> "XResolution"
          [] tag = 283 -> "YResolution"
          [] tag = 296 -> "ResolutionUnit"
          [] tag = 306 -> "DateTime"
          [] tag = 315 -> "Artist"
          [] tag = 531 -> "YCbCrPositioning"
          [] tag = 34665 -> "ExifIFDPointer"
          [] tag = 34853 -> "GPSIFDPointer"]

TagFieldNames == {EXIF_TAGS[tag] : tag \in DOMAIN EXIF_TAGS}

\* the three header reads of processIfdEntry, which sit outside its try block
EntryHeader(dv, tagOffset, isBigEndian) ==
    LET tag == getUint16(dv, tagOffset, ~isBigEndian)
        type == getUint16(dv, tagOffset + 2, ~isBigEndian)
        count == getUint32(dv, tagOffset + 4, ~isBigEndian)
    IN [thr |-> tag.thr \/ type.thr \/ count.thr,
        tag |-> tag.val, type |-> type.val, count |-> count.val]

\* a try block that lets the RangeError of the value read escape
StoreTagValueUncaught(exifData, name, value) ==
    IF value.thr THEN [thr |-> TRUE, map |-> exifData]
    ELSE [thr |-> FALSE, map |-> Put(exifData, name, value.val)]

\* a try block whose catch stores null for the tag
StoreTagValueNullOnFailure(exifData, name, value) ==
    IF value.thr THEN [thr |-> FALSE, map |-> Put(exifData, name, Null)]
    ELSE [thr |-> FALSE, map |-> Put(exifData, name, value.val)]

\* try { exifData[name] = getTagValue(...) } catch { console.warn }
StoreTagValue(exifData, name, value) ==
    IF value.thr THEN [thr |-> FALSE, map |-> exifData]
    ELSE [thr |-> FALSE, map |-> Put(exifData, name, value.val)]

\* an entry handler that follows ExifIFDPointer and GPSIFDPointer into the
\* first entry of the IFD they point to
processIfdEntryFollowing(dv, tagOffset, tiffOffset, isBigEndian, exifData) ==
    LET h == EntryHeader(dv, tagOffset, isBigEndian)
    IN IF h.thr THEN [thr |-> TRUE, map |-> exifData]
       ELSE IF h.tag \in DOMAIN EXIF_TAGS
            THEN LET value == getTagValue(dv, tagOffset + 8, h.type, h.count, tiffOffset, isBigEndian)
                     own == StoreTagValue(exifData, EXIF_TAGS[h.tag], value)
                 IN IF h.tag \in {34665, 34853} /\ ~value.thr /\ value.val.k = "num"
                    THEN LET subOffset == tiffOffset + value.val.n + 2
                             sub == EntryHeader(dv, subOffset, isBigEndian)
                         IN IF sub.thr \/ sub.tag \notin DOMAIN EXIF_TAGS THEN own
                            ELSE StoreTagValue(own.map, EXIF_TAGS[sub.tag],
                                     getTagValue(dv, subOffset + 8, sub.type, sub.count,
                                                 tiffOffset, isBigEndian))
                    ELSE own
            ELSE [thr |-> FALSE, map |-> exifData]

processIfdEntry(dv, tagOffset, tiffOffset, isBigEndian, exifData) ==
    LET h == EntryHeader(dv, tagOffset, isBigEndian)
    IN IF h.thr THEN [thr |-> TRUE, map |-> exifData]
       ELSE IF h.tag \in DOMAIN EXIF_TAGS
            THEN StoreTagValue(exifData, EXIF_TAGS[h.tag],
                     getTagValue(dv, tagOffset + 8, h.type, h.count, tiffOffset, isBigEndian))
            ELSE [thr |-> FALSE, map |-> exifData]

IfdEntryCap == 50

\* a loop bound without the cap
IfdLoopBoundUncapped(tagCount) == tagCount

\* the loop bound of parseIfd
IfdLoopBound(tagCount) == Min(tagCount, IfdEntryCap)

\* What a walk did: whether parseIfd was called and with which arguments, how
\* many entries its loop was to visit (bound, -1 if the count could not be
\* read), how many calls of processIfdEntry returned normally (iterations),
\* which entries stored a value (stored), and whether it threw.
NoWalk ==
    [invoked |-> FALSE, ifdOffset |-> 0, tiffOffset |-> 0, isBigEndian |-> FALSE,
     declaredCount |-> -1, bound |-> -1, iterations |-> 0, stored |-> {}, thr |-> FALSE]

\* The loop of parseIfd over the outcomes of its entries, entry[i] being what
\* processIfdEntry does at entry i: an entry either throws from its header
\* reads (which ends the loop), or leaves exifData alone, or stores one field;
\* so the loop runs up to the first entry that throws and each field ends
\* with the value its last entry stored.
IfdLoop(entry, bound, exifData, called) ==
    LET throwing == {i \in 0..(bound - 1) : entry[i].thr}
        done == IF throwing = {} THEN bound ELSE SetMin(throwing)
        storedBy(name) == {i \in 0..(done - 1) : Has(entry[i].map, name)}
        names == {name \in TagFieldNames : storedBy(name) # {}}
        map == [name \in DOMAIN exifData \cup names |->
                   IF name \in names THEN entry[SetMax(storedBy(name))].map[name]
                   ELSE exifData[name]]
    IN [thr |-> throwing # {}, map |-> map,
        walk |-> [called EXCEPT !.bound = bound, !.iterations = done,
                                !.stored = {i \in 0..(done - 1) : DOMAIN entry[i].map # {}},
                                !.thr = throwing # {}]]

\* for (i = 0; i < bound; i++) processIfdEntry(dv, ifdOffset + 2 + i * 12, ...)
parseIfd(dv, ifdOffset, tiffOffset, isBigEndian, exifData) ==
    LET tagCount == getUint16(dv, ifdOffset, ~isBigEndian)
        called == [NoWalk EXCEPT !.invoked = TRUE, !.ifdOffset = ifdOffset,
                                 !.tiffOffset = tiffOffset, !.isBigEndian = isBigEndian]
    IN IF tagCount.thr THEN [thr |-> TRUE, map |-> exifData, walk |-> [called EXCEPT !.thr = TRUE]]
       ELSE LET bound == IfdLoopBound(tagCount.val)
                entries == [i \in 0..(bound - 1) |->
                               processIfdEntry(dv, ifdOffset + 2 + (i * 12), tiffOffset,
                                               isBigEndian, EmptyMap)]
            IN Only({ IfdLoop(entry, bound, exifData,
                              [called EXCEPT !.declaredCount = tagCount.val]) :
                      entry \in {entries} })

-----------------------------------------------------------------------------
(* The container sniffers.                                                 *)

ExifSignature == 1165519206    \* 0x45786966, "Exif"

\* a test that compares the four letters only and not the two zero bytes
ExifSignatureCheckLettersOnly(dv, i) ==
    LET sig == getUint32(dv, i + 4, FALSE)
    IN IF sig.thr THEN "throw"
       ELSE IF sig.val # ExifSignature THEN "nomatch"
       ELSE "match"

\* the test at one 0xFF 0xE1 marker: "match", "nomatch" or "throw"
ExifSignatureCheck(dv, i) ==
    LET sig == getUint32(dv, i + 4, FALSE)
        zero == getUint16(dv, i + 8, FALSE)
    IN IF sig.thr THEN "throw"
       ELSE IF sig.val # ExifSignature THEN "nomatch"
       ELSE IF zero.thr THEN "throw"
       ELSE IF zero.val = 0 THEN "match" ELSE "nomatch"

ExifMarkerAt(dv, i) == dv[i + 1] = 255 /\ dv[i + 2] = 225

\* for (i = 0; i < byteLength - 1; i++): the first marker whose test does not
\* fail decides; a failed test lets the scan go on
findExifMarker(dv) ==
    LET deciding == {i \in 0..(byteLength(dv) - 2) :
                        ExifMarkerAt(dv, i) /\ ExifSignatureCheck(dv, i) # "nomatch"}
    IN IF deciding = {} THEN Ok(-1)
       ELSE IF ExifSignatureCheck(dv, SetMin(deciding)) = "throw" THEN Throw
       ELSE Ok(SetMin(deciding) + 4)

BigEndianMark == 19789    \* 0x4D4D, "MM"

\* the try block of extractExifData once findExifMarker is back: [thr, map, walk]
ExifTryAt(dv, exifHeaderOffset) ==
       IF exifHeaderOffset.thr THEN [thr |-> TRUE, map |-> EmptyMap, walk |-> NoWalk]
       ELSE IF exifHeaderOffset.val = -1 THEN [thr |-> FALSE, map |-> EmptyMap, walk |-> NoWalk]
       ELSE
       LET tiffOffset == exifHeaderOffset.val + 6
           order == getUint16(dv, tiffOffset, FALSE)
       IN IF order.thr THEN [thr |-> TRUE, map |-> EmptyMap, walk |-> NoWalk]
          ELSE
          LET isBigEndian == order.val = BigEndianMark
              exifData == Put(EmptyMap, "byteOrder",
                              IF isBigEndian THEN Lit("Big Endian") ELSE Lit("Little Endian"))
              pointer == getUint32(dv, tiffOffset + 4, ~isBigEndian)
          IN IF pointer.thr THEN [thr |-> TRUE, map |-> exifData, walk |-> NoWalk]
             ELSE parseIfd(dv, tiffOffset + pointer.val, tiffOffset, isBigEndian, exifData)

ExifTry(dv) == Only({ ExifTryAt(dv, exifHeaderOffset) : exifHeaderOffset \in {findExifMarker(dv)} })

\* a catch block that rethrows
CatchRethrow(attempt, message) == Only({ a : a \in {attempt} })

CatchBlock(attempt, message) ==
    IF attempt.thr THEN [attempt EXCEPT !.thr = FALSE, !.map = Put(attempt.map, "error", Lit(message))]
    ELSE attempt

\* catch (error) { console.warn; data.error = message }
Catch(attempt, message) == Only({ CatchBlock(a, message) : a \in {attempt} })

extractExifData(dv) == Catch(ExifTry(dv), "Failed to parse EXIF data")

\* the try block of the in-component extractExifData: the loop leaves at the
\* first 0xFF 0xE1 (break), whatever follows it
ExifTryInComponent(dv) ==
    LET markers == {i \in 0..(byteLength(dv) - 2) : ExifMarkerAt(dv, i)}
    IN IF markers = {} THEN [thr |-> FALSE, map |-> EmptyMap, walk |-> NoWalk]
       ELSE LET i == SetMin(markers)
                segmentLength == getUint16(dv, i + 2, FALSE)
            IN IF segmentLength.thr \/ ExifSignatureCheck(dv, i) = "throw"
               THEN [thr |-> TRUE, map |-> EmptyMap, walk |-> NoWalk]
               ELSE IF ExifSignatureCheck(dv, i) = "nomatch"
               THEN [thr |-> FALSE, map |-> EmptyMap, walk |-> NoWalk]
               ELSE ExifTryAt(dv, Ok(i + 4))

\* the in-component extractExifData
extractExifDataInComponent(dv) == Catch(ExifTryInComponent(dv), "Failed to parse EXIF data")

TiffMagic == 42

\* a header test that takes the byte order for granted and skips the magic number
TiffMagicOkAlways(magicNumber) == TRUE

\* if (magicNumber === 42)
TiffMagicOk(magicNumber) == magicNumber = TiffMagic

\* the try block of extractTiffExifData: [thr, map, walk]
TiffTry(dv) ==
    LET byteOrder == getUint16(dv, 0, FALSE)
    IN IF byteOrder.thr THEN [thr |-> TRUE, map |-> EmptyMap, walk |-> NoWalk]
       ELSE
       LET isBigEndian == byteOrder.val = BigEndianMark
           exifData == Put(EmptyMap, "byteOrder",
                           IF isBigEndian THEN Lit("Big Endian (MM)") ELSE Lit("Little Endian (II)"))
           magicNumber == getUint16(dv, 2, ~isBigEndian)
       IN IF magicNumber.thr THEN [thr |-> TRUE, map |-> exifData, walk |-> NoWalk]
          ELSE IF TiffMagicOk(magicNumber.val)
          THEN LET valid == Put(exifData, "format", Lit("Valid TIFF"))
                   ifd0Offset == getUint32(dv, 4, ~isBigEndian)
               IN IF ifd0Offset.thr THEN [thr |-> TRUE, map |-> valid, walk |-> NoWalk]
                  ELSE parseIfd(dv, ifd0Offset.val, 0, isBigEndian, valid)
          ELSE [thr |-> FALSE, map |-> Put(exifData, "error", Lit("Invalid TIFF magic number")),
                walk |-> NoWalk]

extractTiffExifData(dv) == Catch(TiffTry(dv), "Failed to parse TIFF EXIF data")

IptcScanCap == 32768

IptcMarkerAt(dv, i) ==
    (dv[i + 1] = 255 /\ dv[i + 2] = 237) \/ (dv[i + 1] = 255 /\ dv[i + 2] = 226)

\* the scan without its limit
findIptcMarkersUncapped(dv) ==
    Ok(\E i \in 0..(byteLength(dv) - 2) : IptcMarkerAt(dv, i))

\* for (i = 0; i < Math.min(byteLength - 1, 32768); i++): every read is in range
findIptcMarkers(dv) ==
    Ok(\E i \in 0..(Min(byteLength(dv) - 1, IptcScanCap) - 1) : IptcMarkerAt(dv, i))

\* the try block of extractIptcData
IptcTry(dv) ==
    LET hasIptcMarkers == findIptcMarkers(dv)
    IN IF hasIptcMarkers.thr THEN [thr |-> TRUE, map |-> EmptyMap]
       ELSE IF hasIptcMarkers.val
       THEN [thr |-> FALSE,
             map |-> Put(Put(EmptyMap, "detected", Bool(TRUE)), "note",
                         Lit("IPTC data detected but requires specialized parser for full extraction"))]
       ELSE [thr |-> FALSE,
             map |-> Put(Put(EmptyMap, "detected", Bool(FALSE)), "note", Lit("No IPTC data found"))]

extractIptcData(dv) == Catch(IptcTry(dv), "Failed to parse IPTC data")

-----------------------------------------------------------------------------
(* The XMP packet extractor.  A JS string is the sequence of its char      *)
(* codes; positions are 0-based as in JS.                                  *)

XmpWindow == 65536

\* the whole buffer as text, without the search length
convertBufferToStringWhole(arrayBuffer) == arrayBuffer

convertBufferToString(arrayBuffer) ==
    Slice(arrayBuffer, 0, Min(byteLength(arrayBuffer), XmpWindow))

MatchesAt(text, i, pattern) == \A j \in 1..Len(pattern) : text[i + j] = pattern[j]

StartsAt(text, i, pattern) == i + Len(pattern) <= Len(text) /\ MatchesAt(text, i, pattern)

\* String.prototype.indexOf
indexOf(text, pattern) ==
    LET at == {i \in 0..(Len(text) - Len(pattern)) : MatchesAt(text, i, pattern)}
    IN IF at = {} THEN -1 ELSE SetMin(at)

Clamp(x, len) == IF x < 0 THEN 0 ELSE IF x > len THEN len ELSE x

\* String.prototype.substring: both ends clamped to the string, swapped if start > end
substring(text, start, end) ==
    LET a == Clamp(start, Len(text))
        b == Clamp(end, Len(text))
    IN IF a <= b THEN Slice(text, a, b) ELSE Slice(text, b, a)

ToLower(c) == IF c \in 65..90 THEN c + 32 ELSE c

\* the literal part of a /.../i pattern matches at i
StartsAtIgnoreCase(text, i, pattern) ==
    /\ i + Len(pattern) <= Len(text)
    /\ \A j \in 1..Len(pattern) : ToLower(text[i + j]) = pattern[j]

\* /<open[^>]*>([^<]+)<\/close>/i tried at position p: the end of the capture
\* (-1 if there is no match at p).  [^>]* runs to the first '>' and [^<]+ to
\* the first '<', so neither has a second way to match.
ElementMatchAt(text, p, open, close) ==
    IF ~StartsAtIgnoreCase(text, p, open) THEN [ok |-> FALSE, from |-> 0, to |-> 0]
    ELSE LET gts == {q \in (p + Len(open))..(Len(text) - 1) : text[q + 1] = 62}
         IN IF gts = {} THEN [ok |-> FALSE, from |-> 0, to |-> 0]
            ELSE LET q == SetMin(gts)
                     lts == {r \in (q + 1)..(Len(text) - 1) : text[r + 1] = 60}
                 IN IF lts = {} THEN [ok |-> FALSE, from |-> 0, to |-> 0]
                    ELSE LET r == SetMin(lts)
                         IN [ok |-> r > q + 1 /\ StartsAtIgnoreCase(text, r, close),
                             from |-> q + 1, to |-> r]

\* RegExp.prototype.exec: the capture of the leftmost match
ElementExec(text, open, close) ==
    LET at == {p \in 0..(Len(text) - 1) : ElementMatchAt(text, p, open, close).ok}
    IN IF at = {} THEN [found |-> FALSE, capture |-> <<>>]
       ELSE LET m == ElementMatchAt(text, SetMin(at), open, close)
            IN [found |-> TRUE, capture |-> Slice(text, m.from, m.to)]

DcTitleOpen == <<60, 100, 99, 58, 116, 105, 116, 108, 101>>                       \* <dc:title
DcTitleClose == <<60, 47, 100, 99, 58, 116, 105, 116, 108, 101, 62>>              \* </dc:title>
DcCreatorOpen == <<60, 100, 99, 58, 99, 114, 101, 97, 116, 111, 114>>             \* <dc:creator
DcCreatorClose == <<60, 47, 100, 99, 58, 99, 114, 101, 97, 116, 111, 114, 62>>    \* </dc:creator>

extractXmpMetadata(xmpContent) ==
    LET titleMatch == ElementExec(xmpContent, DcTitleOpen, DcTitleClose)
        creatorMatch == ElementExec(xmpContent, DcCreatorOpen, DcCreatorClose)
        withTitle == IF titleMatch.found THEN Put(EmptyMap, "title", Str(titleMatch.capture))
                     ELSE EmptyMap
    IN IF creatorMatch.found THEN Put(withTitle, "creator", Str(creatorMatch.capture))
       ELSE withTitle

XpacketBegin == <<60, 63, 120, 112, 97, 99, 107, 101, 116, 32, 98, 101, 103, 105, 110, 61>>  \* <?xpacket begin=
XpacketEnd == <<60, 63, 120, 112, 97, 99, 107, 101, 116, 32, 101, 110, 100, 61>>             \* <?xpacket end=
Ellipsis == <<46, 46, 46>>                                                                   \* ...

XmpEndSlack == 20

XmpExcerptCap == 500

processXmpPacket(fileString) ==
    LET xmpStart == indexOf(fileString, XpacketBegin)
        xmpEnd == indexOf(fileString, XpacketEnd)
    IN IF xmpStart # -1 /\ xmpEnd # -1
       THEN LET xmpContent == substring(fileString, xmpStart, xmpEnd + XmpEndSlack)
                truncatedContent == substring(xmpContent, 0, XmpExcerptCap)
                extracted == extractXmpMetadata(xmpContent)
                xmpData == Put(Put(EmptyMap, "rawXMP", Str(truncatedContent \o Ellipsis)),
                               "detected", Bool(TRUE))
            IN [name \in DOMAIN xmpData \cup DOMAIN extracted |->
                   IF name \in DOMAIN extracted THEN extracted[name] ELSE xmpData[name]]
       ELSE Put(Put(EmptyMap, "detected", Bool(FALSE)), "note", Lit("No XMP packet found in image"))

extractXmpData(arrayBuffer) ==
    Catch([thr |-> FALSE, map |-> processXmpPacket(convertBufferToString(arrayBuffer))],
          "Failed to parse XMP data")

-----------------------------------------------------------------------------
(* The record assembler.  A file is [name, type, lastModified, bytes,      *)
(* readable]: type is its MIME type as char codes, bytes what a read of it *)
(* loads, readable whether the read succeeds.                              *)

Includes(text, pattern) == indexOf(text, pattern) # -1

toLowerCase(text) == [i \in 1..Len(text) |-> ToLower(text[i])]

JpegWord == <<106, 112, 101, 103>>    \* jpeg
JpgWord == <<106, 112, 103>>          \* jpg
TiffWord == <<116, 105, 102, 102>>    \* tiff

extractBasicImageInfo(file) ==
    [name \in {"note", "lastModified", "fileFormat", "supportedExtraction"} |->
        CASE name = "note" -> Template("Limited metadata support for ", file.type)
          [] name = "lastModified" -> Template("ISO date of ", <<file.lastModified>>)
          [] name = "fileFormat" -> Str(file.type)
          [] name = "supportedExtraction" -> Lit("Basic file information only")]

\* a selection that inspects the MIME type as it is written
determineExtractionMethodAsWritten(file) ==
    IF Includes(file.type, JpegWord) \/ Includes(file.type, JpgWord) THEN "jpeg"
    ELSE IF Includes(file.type, TiffWord) THEN "tiff"
    ELSE "basic"

determineExtractionMethod(file) ==
    LET fileType == toLowerCase(file.type)
    IN IF Includes(fileType, JpegWord) \/ Includes(fileType, JpgWord) THEN "jpeg"
       ELSE IF Includes(fileType, TiffWord) THEN "tiff"
       ELSE "basic"

NoExtract ==
    [thr |-> FALSE, exif |-> EmptyMap, iptc |-> EmptyMap, xmp |-> EmptyMap, walk |-> NoWalk]

\* case 'jpeg', the three extractors being back
JpegCase(exif, iptc, xmp) ==
    IF exif.thr THEN [NoExtract EXCEPT !.thr = TRUE, !.walk = exif.walk]
    ELSE IF iptc.thr THEN [NoExtract EXCEPT !.thr = TRUE, !.exif = exif.map, !.walk = exif.walk]
    ELSE IF xmp.thr
    THEN [NoExtract EXCEPT !.thr = TRUE, !.exif = exif.map, !.iptc = iptc.map, !.walk = exif.walk]
    ELSE [NoExtract EXCEPT !.exif = exif.map, !.iptc = iptc.map, !.xmp = xmp.map,
                           !.walk = exif.walk]

\* case 'tiff'
TiffCase(exif) ==
    IF exif.thr THEN [NoExtract EXCEPT !.thr = TRUE, !.walk = exif.walk]
    ELSE [NoExtract EXCEPT !.exif = exif.map, !.walk = exif.walk]

\* [thr, exif, iptc, xmp, walk]: an extractor that throws leaves the switch at once
extractMetadataByType(arrayBuffer, dataView, file, extractionMethod) ==
    CASE extractionMethod = "jpeg" ->
           Only({ JpegCase(exif, iptc, xmp) : exif \in {extractExifData(dataView)},
                                              iptc \in {extractIptcData(dataView)},
                                              xmp \in {extractXmpData(arrayBuffer)} })
      [] extractionMethod = "tiff" ->
           Only({ TiffCase(exif) : exif \in {extractTiffExifData(dataView)} })
      [] OTHER -> [NoExtract EXCEPT !.exif = extractBasicImageInfo(file)]

NoMetadata ==
    [filename |-> "", fileSize |-> 0, mimeType |-> <<>>,
     exif |-> EmptyMap, iptc |-> EmptyMap, xmp |-> EmptyMap]

\* the promise once the body of reader.onload has run
Settle(file, extractionMethod, extractedData) ==
    IF extractedData.thr
    THEN [settled |-> "rejected", method |-> extractionMethod, metadata |-> NoMetadata,
          walk |-> extractedData.walk]
    ELSE [settled |-> "resolved", method |-> extractionMethod,
          metadata |-> [filename |-> file.name, fileSize |-> byteLength(file.bytes),
                        mimeType |-> file.type, exif |-> extractedData.exif,
                        iptc |-> extractedData.iptc, xmp |-> extractedData.xmp],
          walk |-> extractedData.walk]

\* reader.onload of extractMetadata: the promise is resolved with the record,
\* or rejected if the body throws.  processedAt and id (the clock and
\* Math.random) are left out of the record.
onload(file) ==
    Only({ Settle(file, extractionMethod, extractedData) :
           extractionMethod \in {determineExtractionMethod(file)},
           extractedData \in {extractMetadataByType(file.bytes, file.bytes, file,
                                                     determineExtractionMethod(file))} })

\* reader.onerror of extractMetadata
onerror(file) ==
    [settled |-> "rejected", method |-> "none", metadata |-> NoMetadata, walk |-> NoWalk]

NoArgs == [valueOffset |-> 0, type |-> 0, count |-> 0, tiffOffset |-> 0, isBigEndian |-> FALSE]

Pending == [settled |-> "pending", method |-> "none", metadata |-> NoMetadata, walk |-> NoWalk]

NoFile == [name |-> "", type |-> <<>>, lastModified |-> 0, bytes |-> <<>>, readable |-> TRUE]

-----------------------------------------------------------------------------
(* The component state and the batch handlers.  A status line is           *)
(* [text, name, index, total]: the fixed part of the message and what is   *)
(* interpolated into it.                                                   *)

Status(text, name, index, total) ==
    [text |-> text, name |-> name, index |-> index, total |-> total]

Ready == Status("Ready to process images. Select files to begin extraction.", "", 0, 0)

\* nothing has been downloaded
NoDownload == <<>>

\* the component as mounted, no handler having run
Mounted ==
    /\ extractedMetadata = <<>>
    /\ status = Ready
    /\ isProcessing = FALSE
    /\ calls = <<>>
    /\ download = NoDownload

ImageJpeg == <<105, 109, 97, 103, 101, 47, 106, 112, 101, 103>>    \* image/jpeg
ImageJpg == <<105, 109, 97, 103, 101, 47, 106, 112, 103>>          \* image/jpg
ImagePng == <<105, 109, 97, 103, 101, 47, 112, 110, 103>>          \* image/png
ImageTiff == <<105, 109, 97, 103, 101, 47, 116, 105, 102, 102>>    \* image/tiff
ImageTif == <<105, 109, 97, 103, 101, 47, 116, 105, 102>>          \* image/tif

supportedMimeTypes == {ImageJpeg, ImageJpg, ImagePng, ImageTiff, ImageTif}

IsSupported(file) == toLowerCase(file.type) \in supportedMimeTypes

\* a state update that puts the new record first
AppendRecordFirst(prev, metadata) == <<metadata>> \o prev

\* a state update whose new record shares its exif object with the stored ones
AppendRecordMerging(prev, metadata) ==
    [k \in 1..Len(prev) |-> [prev[k] EXCEPT !.exif = metadata.exif]] \o <<metadata>>

\* setExtractedMetadata(prev => [...prev, metadata])
AppendRecord(prev, metadata) == Append(prev, metadata)

\* setStatus(`Processing ${file.name} (${index + 1}/${total})...`)
ProcessingStatus(validFiles, index) ==
    Status("Processing (/)...", validFiles[index + 1].name, index + 1, Len(validFiles))

\* files submitted to the handleFiles invocations so far
Submitted == IF calls = <<>> THEN 0 ELSE calls[Len(calls)].submitted

\* One invocation of handleFiles: validFiles, the loop index i of
\* processFiles, the record processFile holds while it pauses, newMetadata,
\* where the invocation stands (pc: "reading" a file, in the 10 ms "pause"
\* after one, or "done") and how it ended (outcome).
NewCall(files, validFiles, pc, outcome) ==
    [validFiles |-> validFiles, i |-> 0, metadata |-> NoMetadata, newMetadata |-> <<>>,
     pc |-> pc, outcome |-> outcome, submitted |-> Submitted + Len(files)]

\* handleFiles up to its first suspension: the filter, the early return, the
\* reset of the component state, and processFiles -> processFile ->
\* extractMetadata for validFiles[0], which starts the FileReader
handleFiles(files) ==
    LET validFiles == SelectSeq(files, IsSupported)
    IN IF Len(validFiles) = 0
       THEN /\ status' = Status("No valid image files selected. Please choose JPEG, PNG, or TIFF files.",
                                "", 0, 0)
            /\ calls' = Append(calls, NewCall(files, validFiles, "done", "no valid files"))
            /\ UNCHANGED <<extractedMetadata, isProcessing>>
       ELSE /\ extractedMetadata' = <<>>
            /\ status' = ProcessingStatus(validFiles, 0)
            /\ isProcessing' = TRUE
            /\ calls' = Append(calls, NewCall(files, validFiles, "reading", "running"))

\* a catch block without the finally block behind it
handleFilesCatchNoFinally(c, message, name) ==
    /\ status' = Status(message, name, 0, 0)
    /\ calls' = [calls EXCEPT ![c].pc = "done", ![c].outcome = "error"]
    /\ UNCHANGED <<extractedMetadata, isProcessing>>

\* the rejection of extractMetadata leaves processFile and processFiles and
\* reaches the catch and finally blocks of handleFiles
handleFilesCatch(c, message, name) ==
    /\ status' = Status(message, name, 0, 0)
    /\ isProcessing' = FALSE
    /\ calls' = [calls EXCEPT ![c].pc = "done", ![c].outcome = "error"]
    /\ UNCHANGED extractedMetadata

\* the file invocation c is reading
CurrentFile(c) == calls[c].validFiles[calls[c].i + 1]

\* reader.onload for the file of invocation c, and what the resumed
\* processFile does with the settled promise
FileLoadedIn(c) ==
    /\ calls[c].pc = "reading"
    /\ CurrentFile(c).readable
    /\ \E settledAs \in {onload(CurrentFile(c))} :
          IF settledAs.settled = "resolved"
          THEN /\ extractedMetadata' = AppendRecord(extractedMetadata, settledAs.metadata)
               /\ calls' = [calls EXCEPT ![c].pc = "pause", ![c].metadata = settledAs.metadata]
               /\ UNCHANGED <<status, isProcessing>>
          ELSE handleFilesCatch(c, "Error processing files: Failed to extract metadata from : ",
                                CurrentFile(c).name)
    /\ UNCHANGED <<buf, tagArgs, tagRet, reading, promise, download, escaped>>

\* reader.onerror for the file of invocation c
FileReadFailedIn(c) ==
    /\ calls[c].pc = "reading"
    /\ ~CurrentFile(c).readable
    /\ handleFilesCatch(c, "Error processing files: Failed to read file: ", CurrentFile(c).name)
    /\ UNCHANGED <<buf, tagArgs, tagRet, reading, promise, download, escaped>>

\* the 10 ms timer of processFile fires: processFile returns, processFiles
\* pushes the record and either starts the next file or returns, and then
\* handleFiles reports success and clears the busy flag
PauseOverIn(c) ==
    /\ calls[c].pc = "pause"
    /\ LET call == calls[c]
           newMetadata == Append(call.newMetadata, call.metadata)
       IN IF call.i + 1 < Len(call.validFiles)
          THEN /\ status' = ProcessingStatus(call.validFiles, call.i + 1)
               /\ calls' = [calls EXCEPT ![c].i = call.i + 1, ![c].pc = "reading",
                                         ![c].newMetadata = newMetadata]
               /\ UNCHANGED <<extractedMetadata, isProcessing>>
          ELSE /\ status' = Status("Successfully processed  image(s). Metadata extracted and ready for export.",
                                   "", 0, Len(call.validFiles))
               /\ isProcessing' = FALSE
               /\ calls' = [calls EXCEPT ![c].i = call.i + 1, ![c].pc = "done",
                                         ![c].outcome = "success",
                                         ![c].newMetadata = newMetadata]
               /\ UNCHANGED extractedMetadata
    /\ UNCHANGED <<buf, tagArgs, tagRet, reading, promise, download, escaped>>

-----------------------------------------------------------------------------
(* The CSV export.  A cell of a row is a JS value; Array.prototype.join    *)
(* turns it into text, a string being its sequence of char codes.          *)

Comma == 44
Quote == 34
Newline == 10

CSV_HEADERS ==
    <<
       <<102, 105, 108, 101, 110, 97, 109, 101>>,    \* filename
       <<102, 105, 108, 101, 83, 105, 122, 101>>,    \* fileSize
       <<109, 105, 109, 101, 84, 121, 112, 101>>,    \* mimeType
       <<112, 114, 111, 99, 101, 115, 115, 101, 100, 65, 116>>,    \* processedAt
       <<101, 120, 105, 102, 95, 109, 97, 107, 101>>,    \* exif_make
       <<101, 120, 105, 102, 95, 109, 111, 100, 101, 108>>,    \* exif_model
       <<101, 120, 105, 102, 95, 100, 97, 116, 101, 84, 105, 109, 101>>,    \* exif_dateTime
       <<101, 120, 105, 102, 95, 111, 114, 105, 101, 110, 116, 97, 116, 105, 111, 110>>,    \* exif_orientation
       <<105, 112, 116, 99, 95, 100, 101, 116, 101, 99, 116, 101, 100>>,    \* iptc_detected
       <<120, 109, 112, 95, 100, 101, 116, 101, 99, 116, 101, 100>>,    \* xmp_detected
       <<120, 109, 112, 95, 116, 105, 116, 108, 101>>,    \* xmp_title
       <<120, 109, 112, 95, 99, 114, 101, 97, 116, 111, 114>>    \* xmp_creator
    >>

Undefined == [k |-> "undefined", n |-> 0, d |-> 1, s |-> <<>>, l |-> ""]

\* object.name
Get(map, name) == IF Has(map, name) THEN map[name] ELSE Undefined

\* whether a value counts as true to ||
Truthy(value) ==
    CASE value.k = "str" -> value.s # <<>> \/ value.l # ""
      [] value.k = "num" -> value.n # 0
      [] value.k = "bool" -> value.n = 1
      [] value.k = "inf" -> TRUE
      [] value.k = "lit" -> TRUE
      [] OTHER -> FALSE

\* value || other
OrElse(value, other) == IF Truthy(value) THEN value ELSE other

\* value.includes(c) for a one-character c
IncludesChar(cs, c) == \E i \in 1..Len(cs) : cs[i] = c

\* value.replace(/"/g, '""')
RECURSIVE DoubleQuotes(_)
DoubleQuotes(cs) ==
    IF cs = <<>> THEN <<>>
    ELSE (IF Head(cs) = Quote THEN <<Quote, Quote>> ELSE <<Head(cs)>>) \o DoubleQuotes(Tail(cs))

\* an escaper that wraps without doubling the quotes inside
escapeCsvValueWrapOnly(value) ==
    IF value.k # "str" THEN value
    ELSE IF IncludesChar(value.s, Comma) \/ IncludesChar(value.s, Quote)
              \/ IncludesChar(value.s, Newline)
    THEN Str(<<Quote>> \o value.s \o <<Quote>>)
    ELSE value

escapeCsvValue(value) ==
    IF value.k # "str" THEN value
    ELSE IF IncludesChar(value.s, Comma) \/ IncludesChar(value.s, Quote)
              \/ IncludesChar(value.s, Newline)
    THEN Str(<<Quote>> \o DoubleQuotes(value.s) \o <<Quote>>)
    ELSE value

\* Date.prototype.toISOString.  The record of the model carries no
\* processedAt; every instant prints in this shape, here the epoch.
toISOString ==
    <<49, 57, 55, 48, 45, 48, 49, 45, 48, 49, 84, 48, 48, 58, 48, 48, 58, 48, 48, 46, 48, 48, 48, 90>>

\* the row of one record
createCsvRow(metadata) ==
    << escapeCsvValue(Str(metadata.filename)),
       Num(metadata.fileSize),
       escapeCsvValue(Str(metadata.mimeType)),
       Str(toISOString),
       escapeCsvValue(OrElse(Get(metadata.exif, "Make"), Str(<<>>))),
       escapeCsvValue(OrElse(Get(metadata.exif, "Model"), Str(<<>>))),
       escapeCsvValue(OrElse(Get(metadata.exif, "DateTime"), Str(<<>>))),
       OrElse(Get(metadata.exif, "Orientation"), Str(<<>>)),
       OrElse(Get(metadata.iptc, "detected"), Bool(FALSE)),
       OrElse(Get(metadata.xmp, "detected"), Bool(FALSE)),
       escapeCsvValue(OrElse(Get(metadata.xmp, "title"), Str(<<>>))),
       escapeCsvValue(OrElse(Get(metadata.xmp, "creator"), Str(<<>>))) >>

\* the decimal digits of a natural number
RECURSIVE Digits(_)
Digits(x) == IF x < 10 THEN <<48 + x>> ELSE Digits(x \div 10) \o <<48 + (x % 10)>>

FractionCap == 17

\* the digits after the point of r/d (r < d), by long division, as far as
\* they go and no further than FractionCap
RECURSIVE FractionDigits(_, _, _)
FractionDigits(r, d, left) ==
    IF r = 0 \/ left = 0 THEN <<>>
    ELSE <<48 + ((r * 10) \div d)>> \o FractionDigits((r * 10) % d, d, left - 1)

\* Number.prototype.toString for n/d >= 0
NumberToString(n, d) ==
    IF n % d = 0 THEN Digits(n \div d)
    ELSE Digits(n \div d) \o <<46>> \o FractionDigits(n % d, d, FractionCap)

\* the text join gives an element: null and undefined give nothing
ToText(value) ==
    CASE value.k = "str" -> value.s
      [] value.k = "num" -> NumberToString(value.n, value.d)
      [] value.k = "bool" -> IF value.n = 1 THEN <<116, 114, 117, 101>>          \* true
                             ELSE <<102, 97, 108, 115, 101>>                       \* false
      [] value.k = "nan" -> <<78, 97, 78>>                                        \* NaN
      [] value.k = "inf" -> <<73, 110, 102, 105, 110, 105, 116, 121>>             \* Infinity
      [] value.k \in {"null", "undefined"} -> <<>>

\* Array.prototype.join over texts
RECURSIVE Join(_, _)
Join(texts, separator) ==
    IF texts = <<>> THEN <<>>
    ELSE IF Len(texts) = 1 THEN texts[1]
    ELSE texts[1] \o separator \o Join(Tail(texts), separator)

\* row.join(',')
RowText(row) == Join([k \in 1..Len(row) |-> ToText(row[k])], <<Comma>>)

\* the csvContent of exportAsCsv
CsvContent(records) ==
    Join(<<Join(CSV_HEADERS, <<Comma>>)>>
           \o [i \in 1..Len(records) |-> RowText(createCsvRow(records[i]))],
         <<Newline>>)

\* exportAsCsv, run by a click on the Export CSV button, which is disabled
\* while there are no records
exportAsCsv ==
    IF Len(extractedMetadata) = 0
    THEN /\ status' = Status("No metadata to export", "", 0, 0)
         /\ UNCHANGED download
    ELSE /\ download' = CsvContent(extractedMetadata)
         /\ status' = Status("CSV export completed for  image(s)", "", 0, Len(extractedMetadata))

-----------------------------------------------------------------------------
(* Inputs of the getTagValue checks: a buffer made of a lead-in, the 4-byte *)
(* value field of an entry and a data area, possibly cut short.            *)

ExtraData == 30

Zeros(n) == [i \in 1..n |-> 0]

Letters(n) == [i \in 1..n |-> 65 + (i % 26)]

TagFields ==
    { <<0, 0, 0, 8>>, <<8, 0, 0, 0>>, <<0, 0, 0, 0>>, <<127, 255, 255, 0>>, <<65, 66, 0, 7>> }

TagData ==
    { Letters(n) : n \in {0, 3, AsciiLoopCap - 1, AsciiLoopCap, AsciiLoopCap + 1, AsciiLoopCap + ExtraData} }
      \cup { <<0, 0, 0, 7, 0, 0, 0, 0>>, <<7, 0, 0, 0, 0, 0, 0, 0>>, <<0, 0, 0, 0, 0, 0, 0, 0>>,
             <<0, 0, 0, 6, 0, 0, 0, 4>>, <<6, 0, 0, 0, 4, 0, 0, 0>> }

TagLead == 4

\* buffers in which the value field sits at offset TagLead, whole or cut short
TagBuffers ==
    { Zeros(TagLead) \o f \o d : f \in TagFields, d \in TagData }
      \cup { Zeros(TagLead) \o Take(f, n) : f \in TagFields, n \in 0..3 }

\* the largest count that 8 * count keeps within the model checker's integers
BigCount == 16 * 16777216 - 1

TagTypes == 0..13 \cup {65535}

TagCounts ==
    {0, 1, 2, 3, 4, 5, 8, AsciiLoopCap - 1, AsciiLoopCap, AsciiLoopCap + 1, AsciiLoopCap + 2,
     AsciiLoopCap + ExtraData, BigCount}

TagInit ==
    /\ escaped = <<>>
    /\ buf \in TagBuffers
    /\ tagArgs \in [valueOffset : {TagLead}, type : TagTypes, count : TagCounts,
                    tiffOffset : {0, 4}, isBigEndian : BOOLEAN]
    /\ tagRet = NotCalled
    /\ reading = NoFile
    /\ promise = Pending
    /\ Mounted

\* one call of getTagValue on the drawn arguments
GetTagValueCall ==
    /\ tagRet = NotCalled
    /\ tagRet' = getTagValue(buf, tagArgs.valueOffset, tagArgs.type, tagArgs.count,
                             tagArgs.tiffOffset, tagArgs.isBigEndian)
    /\ UNCHANGED <<buf, tagArgs, reading, promise, extractedMetadata, status, isProcessing, calls,
                 download, escaped>>

TagNext == GetTagValueCall

SpecTag == TagInit /\ [][TagNext]_vars

TagCalled == tagRet # NotCalled

TagReturned == TagCalled /\ ~tagRet.thr

-----------------------------------------------------------------------------
(* Inputs of the decoder checks: TIFF streams built from a palette of IFD  *)
(* entries, bare or wrapped in a JPEG APP1 segment, whole or cut short.    *)

U16Bytes(x, isBigEndian) ==
    IF isBigEndian THEN <<x \div 256, x % 256>> ELSE <<x % 256, x \div 256>>

U32Bytes(x, isBigEndian) ==
    IF isBigEndian
    THEN <<x \div 16777216, (x \div 65536) % 256, (x \div 256) % 256, x % 256>>
    ELSE <<x % 256, (x \div 256) % 256, (x \div 65536) % 256, x \div 16777216>>

\* the data area, at TIFF offsets 8..(IfdAt - 1):
\*   8 "ACME\0", 16 the rational 72/1, 24 the rational 5/0, 32 letters
DataArea(isBigEndian) ==
    <<65, 67, 77, 69, 0, 0, 0, 0>>
      \o U32Bytes(72, isBigEndian) \o U32Bytes(1, isBigEndian)
      \o U32Bytes(5, isBigEndian) \o U32Bytes(0, isBigEndian)
      \o Letters(AsciiLoopCap + ExtraData)

IfdAt == 8 + 24 + AsciiLoopCap + ExtraData

FarAway == 100000

\* an entry: tag, type, count and either a pointer or, if ptr = -1, the
\* value to lay out in the 4-byte field, as 16-bit halves
Palette(isBigEndian) ==
    << [tag |-> 271, type |-> 2, count |-> 5, ptr |-> 8, inline |-> <<>>],            \* Make = "ACME"
       [tag |-> 274, type |-> 3, count |-> 1, ptr |-> -1,
        inline |-> U16Bytes(6, isBigEndian) \o <<0, 0>>],                               \* Orientation = 6
       [tag |-> 282, type |-> 5, count |-> 1, ptr |-> 16, inline |-> <<>>],           \* XResolution = 72
       [tag |-> 283, type |-> 5, count |-> 1, ptr |-> 24, inline |-> <<>>],           \* YResolution = 5/0
       [tag |-> 39321, type |-> 2, count |-> 5, ptr |-> 8, inline |-> <<>>],          \* not in the registry
       [tag |-> 315, type |-> 2, count |-> AsciiLoopCap + ExtraData, ptr |-> 32,
        inline |-> <<>>],                                                               \* Artist, long
       [tag |-> 272, type |-> 2, count |-> 5, ptr |-> FarAway, inline |-> <<>>],      \* Model, pointer astray
       [tag |-> 306, type |-> 7, count |-> 8, ptr |-> 8, inline |-> <<>>],            \* DateTime, type 7
       [tag |-> 271, type |-> 2, count |-> 3, ptr |-> -1, inline |-> <<65, 66, 0, 0>>], \* Make = "AB"
       [tag |-> 34665, type |-> 4, count |-> 1, ptr |-> -1,
        inline |-> U32Bytes(IfdAt, isBigEndian)],                                       \* ExifIFDPointer = IFD0
       [tag |-> 296, type |-> 1, count |-> 1, ptr |-> -1, inline |-> <<2, 0, 0, 0>>]  \* ResolutionUnit = 2
    >>

PaletteSize == Len(Palette(TRUE))

EntryBytes(e, isBigEndian) ==
    U16Bytes(e.tag, isBigEndian) \o U16Bytes(e.type, isBigEndian) \o U32Bytes(e.count, isBigEndian)
      \o (IF e.ptr = -1 THEN e.inline ELSE U32Bytes(e.ptr, isBigEndian))

\* the 12 * n bytes of n entries: entry j (from 0) is the palette's entry
\* ((j + start) mod PaletteSize) + 1
IfdBytes(n, start, isBigEndian) ==
    LET palette == Palette(isBigEndian)
        bytes == [k \in 1..PaletteSize |-> EntryBytes(palette[k], isBigEndian)]
    IN [b \in 1..(12 * n) |-> bytes[((((b - 1) \div 12) + start) % PaletteSize) + 1][((b - 1) % 12) + 1]]

OverCap == 2

\* order: "MM", "II" or "??" (neither mark); declared: the entry count the IFD
\* states; min(declared, cap + OverCap) entries are laid out; cut: bytes
\* dropped from the end
TiffStream(order, magic, ifdPointer, declared, start, cut) ==
    LET isBigEndian == order = "MM"
        mark == IF order = "MM" THEN <<77, 77>> ELSE IF order = "II" THEN <<73, 73>> ELSE <<63, 63>>
        present == Min(declared, IfdEntryCap + OverCap)
        whole == mark \o U16Bytes(magic, isBigEndian) \o U32Bytes(ifdPointer, isBigEndian)
                   \o DataArea(isBigEndian) \o U16Bytes(declared, isBigEndian)
                   \o IfdBytes(present, start, isBigEndian) \o <<0, 0, 0, 0>>
    IN Take(whole, Len(whole) - cut)

\* a stream whose IFD0 declares and holds cap + 1 entries: Orientation = 6,
\* cap times over, and then YCbCrPositioning = 1
CrowdedTiffStream(order) ==
    LET isBigEndian == order = "MM"
        orientation == EntryBytes(Palette(isBigEndian)[2], isBigEndian)
        positioning == EntryBytes([tag |-> 531, type |-> 3, count |-> 1, ptr |-> -1,
                                   inline |-> U16Bytes(1, isBigEndian) \o <<0, 0>>], isBigEndian)
    IN (IF isBigEndian THEN <<77, 77>> ELSE <<73, 73>>)
         \o U16Bytes(TiffMagic, isBigEndian) \o U32Bytes(IfdAt, isBigEndian)
         \o DataArea(isBigEndian) \o U16Bytes(IfdEntryCap + 1, isBigEndian)
         \o [b \in 1..(12 * IfdEntryCap) |-> orientation[((b - 1) % 12) + 1]]
         \o positioning \o <<0, 0, 0, 0>>

Orders == {"MM", "II", "??"}

DeclaredCounts ==
    {0, 1, 2, 3, PaletteSize, IfdEntryCap - 1, IfdEntryCap, IfdEntryCap + 1, IfdEntryCap + OverCap, 65535}

Cuts == {0, 1, 4, 5, 7, 8, 9, 13, 17, 30}

\* TIFF streams with a sound header
SoundTiffStreams ==
    { TiffStream(o, TiffMagic, IfdAt, n, 0, c) : o \in {"MM", "II"}, n \in DeclaredCounts, c \in Cuts }
      \cup { TiffStream(o, TiffMagic, IfdAt, PaletteSize, st, c) :
                 o \in {"MM", "II"}, st \in 0..(PaletteSize - 1), c \in {0, 5} }

\* TIFF streams whose header is off: the order mark, the magic number, the IFD0 pointer
OddTiffStreams ==
    { TiffStream(o, m, p, 3, 0, 0) : o \in Orders, m \in {TiffMagic, TiffMagic + 1, 0, 10752},
                                      p \in {IfdAt, IfdAt + 2, FarAway} }

\* the first n bytes of a sound stream, n up to the end of its header
TiffStubs ==
    { Take(TiffStream(o, TiffMagic, IfdAt, 3, 0, 0), n) : o \in {"MM", "II"}, n \in 0..10 }

\* a stream whose IFD0, at offset 8, holds ExifIFDPointer = 38 and
\* GPSIFDPointer = 8 (IFD0 itself); at offset 38 a second IFD holds
\* Orientation = 6
NestedTiffStream(order) ==
    LET isBigEndian == order = "MM"
        exifPointer == [tag |-> 34665, type |-> 4, count |-> 1, ptr |-> -1,
                        inline |-> U32Bytes(38, isBigEndian)]
        gpsPointer == [tag |-> 34853, type |-> 4, count |-> 1, ptr |-> -1,
                       inline |-> U32Bytes(8, isBigEndian)]
    IN (IF isBigEndian THEN <<77, 77>> ELSE <<73, 73>>)
         \o U16Bytes(TiffMagic, isBigEndian) \o U32Bytes(8, isBigEndian)
         \o U16Bytes(2, isBigEndian) \o EntryBytes(exifPointer, isBigEndian)
         \o EntryBytes(gpsPointer, isBigEndian) \o <<0, 0, 0, 0>>
         \o U16Bytes(1, isBigEndian) \o EntryBytes(Palette(isBigEndian)[2], isBigEndian)
         \o <<0, 0, 0, 0>>

NestedTiffStreams == { NestedTiffStream(o) : o \in {"MM", "II"} }

\* a stream whose IFD0, at offset 8, holds Orientation = 6, then an
\* Orientation whose value lies behind a pointer out of the buffer, then an
\* entry whose tag is not in the registry
RepeatedTiffStream(order) ==
    LET isBigEndian == order = "MM"
        astray == [tag |-> 274, type |-> 2, count |-> 5, ptr |-> FarAway, inline |-> <<>>]
    IN (IF isBigEndian THEN <<77, 77>> ELSE <<73, 73>>)
         \o U16Bytes(TiffMagic, isBigEndian) \o U32Bytes(8, isBigEndian)
         \o U16Bytes(3, isBigEndian) \o EntryBytes(Palette(isBigEndian)[2], isBigEndian)
         \o EntryBytes(astray, isBigEndian) \o EntryBytes(Palette(isBigEndian)[5], isBigEndian)
         \o <<0, 0, 0, 0>>

RepeatedTiffStreams == { RepeatedTiffStream(o) : o \in {"MM", "II"} }

CrowdedTiffStreams == { CrowdedTiffStream(o) : o \in {"MM", "II"} }

TiffStreams ==
    SoundTiffStreams \cup OddTiffStreams \cup TiffStubs \cup CrowdedTiffStreams
      \cup NestedTiffStreams \cup RepeatedTiffStreams

SOI == <<255, 216>>

\* an APP1 segment that is not EXIF (an XMP-style payload) and an APP13 segment
App1Other == <<255, 225, 0, 10, 104, 116, 116, 112, 58, 47, 47, 0>>
App13 == <<255, 237, 0, 4, 0, 0>>

JpegLeads == { SOI, SOI \o App1Other, SOI \o App13, <<>> }

ExifHead(sixth) == <<255, 225, 0, 16, 69, 120, 105, 102, 0, sixth>>

\* a JPEG stream: a lead-in, an APP1 marker whose signature ends in `sixth`, a TIFF stream
JpegStream(lead, sixth, tiff) == lead \o ExifHead(sixth) \o tiff

JpegStreams ==
    { JpegStream(l, 0, t) : l \in JpegLeads, t \in OddTiffStreams \cup TiffStubs }
      \cup { JpegStream(SOI, 0, t) :
                 t \in SoundTiffStreams \cup CrowdedTiffStreams \cup NestedTiffStreams
                        \cup RepeatedTiffStreams }
      \cup { JpegStream(l, 1, TiffStream("II", TiffMagic, IfdAt, 3, 0, 0)) : l \in JpegLeads }
      \cup { Take(JpegStream(l, 0, <<>>), n) : l \in JpegLeads, n \in 0..22 }
      \cup { l \o Letters(n) \o <<255, 225>> \o Letters(m) : l \in JpegLeads, n \in 0..2, m \in 0..9 }

MakeFile(name, type, bytes) ==
    [name |-> name, type |-> type, lastModified |-> 0, bytes |-> bytes, readable |-> TRUE]

ImageJpgMixed == <<73, 109, 97, 103, 101, 47, 74, 112, 103>>        \* Image/Jpg
ImageTiffUpper == <<73, 77, 65, 71, 69, 47, 84, 73, 70, 70>>        \* IMAGE/TIFF

\* the MIME types the filter of handleFiles lets through, some in capitals
MimeTypes == supportedMimeTypes \cup {ImageJpgMixed, ImageTiffUpper}

\* files of every such type over a TIFF stream, a JPEG stream and the empty buffer
TypedFiles ==
    { MakeFile("t.img", type, b) :
        type \in MimeTypes,
        b \in { TiffStream("II", TiffMagic, IfdAt, 1, 0, 0),
                JpegStream(SOI \o App13, 0, TiffStream("II", TiffMagic, IfdAt, 1, 0, 0)),
                <<>> } }

\* char code of 'x'
Filler(n) == [i \in 1..n |-> 120]

\* <dc:title>Hi</dc:title>
TitleElement == DcTitleOpen \o <<62, 72, 105>> \o DcTitleClose

XmpDelimiters == {XpacketBegin, XpacketEnd, <<>>}

\* what may stand between the two delimiters: nothing, six characters (so that
\* a begin delimiter after an end delimiter starts XmpEndSlack past it), a
\* title element, and more than the excerpt holds
XmpMiddles == {<<>>, Filler(XmpEndSlack - Len(XpacketEnd)), TitleElement, Filler(XmpExcerptCap + 10)}

XmpLeads == {<<>>, Filler(3)}

XmpTails == {<<>>, Filler(XmpEndSlack + 10)}

\* texts with the packet delimiters in either order, one of them, or none
XmpTexts ==
    { lead \o first \o middle \o second \o tail :
        lead \in XmpLeads, first \in XmpDelimiters, middle \in XmpMiddles,
        second \in XmpDelimiters, tail \in XmpTails }

XmpFiles == { MakeFile("x.jpg", ImageJpeg, SOI \o text) : text \in XmpTexts }

\* second bytes of a marker: APP13, APP2 and APP0 (which the IPTC scan ignores)
MarkerBytes == {237, 226, 224}

\* streams with one marker, in the last position the IPTC scan looks at or
\* right behind it
LongStreams ==
    { Zeros(at) \o <<255, mark>> : at \in {IptcScanCap - 1, IptcScanCap}, mark \in MarkerBytes }

LongFiles == { MakeFile("l.jpg", ImageJpeg, b) : b \in LongStreams }

\* a JPEG stream with the two delimiters behind k filler characters, so that
\* the end delimiter ends at offset k + 32
WideStream(k, tail) == SOI \o Filler(k) \o XpacketBegin \o XpacketEnd \o tail

\* the end delimiter ends with the window, straddles its end, or both
\* delimiters start behind it; one stream twice with different bytes behind
\* the window
WideStreams ==
    { WideStream(XmpWindow - 32, <<>>), WideStream(XmpWindow - 32, TitleElement),
      WideStream(XmpWindow - 31, <<>>), WideStream(XmpWindow - 2, <<>>) }

WideFiles == { MakeFile("w.jpg", ImageJpeg, b) : b \in WideStreams }

DecodeFiles ==
    { MakeFile("a.jpg", ImageJpeg, b) : b \in JpegStreams \cup OddTiffStreams }
      \cup { MakeFile("a.tif", ImageTiff, b) : b \in TiffStreams }
      \cup { MakeFile("a.png", ImagePng, b) : b \in OddTiffStreams }
      \cup TypedFiles
      \cup XmpFiles
      \cup LongFiles
      \cup WideFiles

DecodeInit ==
    /\ escaped = <<>>
    /\ reading \in DecodeFiles
    /\ promise = Pending
    /\ buf = <<>>
    /\ tagArgs = NoArgs
    /\ tagRet = NotCalled
    /\ Mounted

\* the FileReader has loaded the file: reader.onload runs
ReaderLoad ==
    /\ promise.settled = "pending"
    /\ promise' = onload(reading)
    /\ UNCHANGED <<buf, tagArgs, tagRet, reading, extractedMetadata, status, isProcessing, calls,
                 download, escaped>>

DecodeNext == ReaderLoad

SpecDecode == DecodeInit /\ [][DecodeNext]_vars

-----------------------------------------------------------------------------
(* Inputs of the batch checks: the user submits lists of small files, one  *)
(* list after the other has been dealt with.                               *)

\* a TIFF stream whose IFD0, at offset 8, holds the one entry Orientation = 6
TinyTiff(order) ==
    LET isBigEndian == order = "MM"
    IN (IF isBigEndian THEN <<77, 77>> ELSE <<73, 73>>)
         \o U16Bytes(TiffMagic, isBigEndian) \o U32Bytes(8, isBigEndian)
         \o U16Bytes(1, isBigEndian) \o EntryBytes(Palette(isBigEndian)[2], isBigEndian)

ImageGif == <<105, 109, 97, 103, 101, 47, 103, 105, 102>>    \* image/gif

GoodJpeg == MakeFile("a.jpg", ImageJpeg, SOI \o ExifHead(0) \o TinyTiff("II"))
GoodTiff == MakeFile("b.tif", ImageTiff, TinyTiff("MM"))
GoodPng == MakeFile("c.png", ImagePng, <<137, 80, 78, 71>>)
Unreadable == [MakeFile("d.jpg", ImageJpeg, <<>>) EXCEPT !.readable = FALSE]
Unsupported == MakeFile("e.gif", ImageGif, <<71, 73, 70>>)

BatchFiles == {GoodJpeg, GoodTiff, GoodPng, Unreadable, Unsupported}

MaxCalls == 2

MaxSubmitted == 3

\* the lists of at most n files
FileLists(n) == UNION { [1..k -> BatchFiles] : k \in 0..n }

BatchInit ==
    /\ escaped = <<>>
    /\ Mounted
    /\ buf = <<>>
    /\ tagArgs = NoArgs
    /\ tagRet = NotCalled
    /\ reading = NoFile
    /\ promise = Pending

\* no invocation of handleFiles is under way
Quiet == \A c \in 1..Len(calls) : calls[c].pc = "done"

\* the user selects or drops files: handleFileInputChange / handleDrop
Submit ==
    /\ Quiet
    /\ Len(calls) < MaxCalls
    /\ \E files \in FileLists(MaxSubmitted - Submitted) : handleFiles(files)
    /\ UNCHANGED <<buf, tagArgs, tagRet, reading, promise, download, escaped>>

\* handleFileInputChange / handleDrop whatever the component is doing:
\* handleFiles does not look at isProcessing
SubmitAnyTime ==
    /\ Len(calls) < MaxCalls
    /\ \E files \in FileLists(MaxSubmitted - Submitted) : handleFiles(files)
    /\ UNCHANGED <<buf, tagArgs, tagRet, reading, promise, download, escaped>>

FileLoaded == \E c \in 1..Len(calls) : FileLoadedIn(c)

FileReadFailed == \E c \in 1..Len(calls) : FileReadFailedIn(c)

PauseOver == \E c \in 1..Len(calls) : PauseOverIn(c)

SoloNext == Submit \/ FileLoaded \/ FileReadFailed \/ PauseOver

SpecSolo == BatchInit /\ [][SoloNext]_vars

OverlapNext == SubmitAnyTime \/ FileLoaded \/ FileReadFailed \/ PauseOver

\* invocations of handleFiles that may overlap
SpecOverlap == BatchInit /\ [][OverlapNext]_vars

-----------------------------------------------------------------------------
FewFiles == {GoodPng, Unreadable, Unsupported}

FewCalls == 2

FewSubmitted == 2

\* handleFiles invoked at any time with a short list of those files
SubmitFew ==
    /\ Len(calls) < FewCalls
    /\ \E k \in 0..(FewSubmitted - Submitted) : \E files \in [1..k -> FewFiles] : handleFiles(files)
    /\ UNCHANGED <<buf, tagArgs, tagRet, reading, promise, download, escaped>>

FewNext == SubmitFew \/ FileLoaded \/ FileReadFailed \/ PauseOver

\* every pending file read ends in onload or onerror and every 10 ms timer fires
SpecFair ==
    /\ BatchInit /\ [][FewNext]_vars
    /\ WF_vars(FileLoaded) /\ WF_vars(FileReadFailed) /\ WF_vars(PauseOver)

-----------------------------------------------------------------------------

(* Inputs of the export checks: one batch of small files whose names and   *)
(* exported tags hold commas, quotes and newlines, then clicks on Export   *)
(* CSV.  The names of these files are char sequences.                      *)

\* a little-endian entry whose value lies in its value field
AsciiField(tag, chars) ==
    [tag |-> tag, type |-> 2, count |-> Len(chars) + 1, ptr |-> -1, inline |-> chars \o <<0>>]

ShortField(tag, x) ==
    [tag |-> tag, type |-> 3, count |-> 1, ptr |-> -1, inline |-> U16Bytes(x, FALSE) \o <<0, 0>>]

\* a little-endian TIFF stream: IFD0 with one entry at offset 8, then data
CsvTiff(entry, data) ==
    <<73, 73>> \o U16Bytes(TiffMagic, FALSE) \o U32Bytes(8, FALSE) \o U16Bytes(1, FALSE)
      \o EntryBytes(entry, FALSE) \o <<0, 0, 0, 0>> \o data

\* Make, Model, DateTime, Orientation: the tags createCsvRow reads
ExportedTags == {271, 272, 306, 274}

\* a,b  a"b  a<newline>b  abc
CellTexts == {<<97, Comma, 98>>, <<97, Quote, 98>>, <<97, Newline, 98>>, <<97, 98, 99>>}

CsvEntries ==
    { AsciiField(tag, chars) : tag \in ExportedTags, chars \in CellTexts }
      \cup { ShortField(tag, x) : tag \in ExportedTags, x \in {0, 6} }

PlainName == <<97, 46, 116, 105, 102>>                  \* a.tif
OddNames == {<<97, Comma, 98, 46, 116, 105, 102>>,      \* a,b.tif
             <<97, Quote, 98, 46, 116, 105, 102>>}      \* a"b.tif

\* a file with Orientation = 6 and nothing to escape
PlainFile == MakeFile(PlainName, ImageTiff, CsvTiff(ShortField(274, 6), <<>>))

\* Make = 1/2, a RATIONAL kept behind the IFD
HalfMake ==
    CsvTiff([tag |-> 271, type |-> 5, count |-> 1, ptr |-> 26, inline |-> <<>>],
            U32Bytes(1, FALSE) \o U32Bytes(2, FALSE))

\* a JPEG stream with an XMP packet whose title is H,"i
TitledJpeg ==
    SOI \o XpacketBegin \o DcTitleOpen \o <<62, 72, Comma, Quote, 105>> \o DcTitleClose
      \o XpacketEnd

CsvFiles ==
    { MakeFile(PlainName, ImageTiff, CsvTiff(entry, <<>>)) : entry \in CsvEntries }
      \cup { MakeFile(name, ImageTiff, CsvTiff(ShortField(274, 6), <<>>)) : name \in OddNames }
      \cup { MakeFile(PlainName, ImageTiff, HalfMake), MakeFile(PlainName, ImageJpeg, TitledJpeg) }

\* one file, or one file and the plain file after it
CsvFileLists == { <<f>> : f \in CsvFiles } \cup { <<f, PlainFile>> : f \in CsvFiles }

\* the user selects files, once
SubmitForExport ==
    /\ calls = <<>>
    /\ \E files \in CsvFileLists : handleFiles(files)
    /\ UNCHANGED <<buf, tagArgs, tagRet, reading, promise, download, escaped>>

\* a click on the Export CSV button, enabled once there is a record
ExportCsv ==
    /\ Len(extractedMetadata) # 0
    /\ exportAsCsv
    /\ UNCHANGED <<buf, tagArgs, tagRet, reading, promise, extractedMetadata, isProcessing, calls,
                 escaped>>

CsvNext == SubmitForExport \/ FileLoaded \/ PauseOver \/ ExportCsv

SpecCsv == BatchInit /\ [][CsvNext]_vars

-----------------------------------------------------------------------------
(* Inputs of the escapeCsvValue checks: two strings over a small alphabet, *)
(* each passed to the function.                                            *)

\* a  ,  "  <newline>
EscapeAlphabet == {97, Comma, Quote, Newline}

MaxEscapeLen == 3

\* test,value
TestValue == <<116, 101, 115, 116, Comma, 118, 97, 108, 117, 101>>

EscapeStrings == UNION { [1..n -> EscapeAlphabet] : n \in 0..MaxEscapeLen } \cup {TestValue}

EscapeInit ==
    /\ escaped \in { <<[value |-> Str(a), called |-> FALSE, ret |-> Null],
                       [value |-> Str(b), called |-> FALSE, ret |-> Null]>> :
                     a \in EscapeStrings, b \in EscapeStrings }
    /\ buf = <<>>
    /\ tagArgs = NoArgs
    /\ tagRet = NotCalled
    /\ reading = NoFile
    /\ promise = Pending
    /\ Mounted

EscapeCall ==
    /\ \E k \in 1..Len(escaped) :
          /\ ~escaped[k].called
          /\ escaped' = [escaped EXCEPT ![k].called = TRUE,
                                        ![k].ret = escapeCsvValue(escaped[k].value)]
    /\ UNCHANGED <<buf, tagArgs, tagRet, reading, promise, extractedMetadata, status,
                   isProcessing, calls, download>>

EscapeNext == EscapeCall

SpecEscape == EscapeInit /\ [][EscapeNext]_vars

-----------------------------------------------------------------------------
-----------------------------------------------------------------------------
-----------------------------------------------------------------------------
(* C7: a rational (type 5) tag whose denominator, the 32-bit value at      *)
(* effective offset + 4, is 0 decodes to exactly 0 and raises nothing, for *)
(* every count and numerator.                                              *)
C7_ZeroDenominatorIsZero ==
    (TagCalled /\ tagArgs.type = 5) =>
        LET pointed == 8 * tagArgs.count > 4
            field == getUint32(buf, tagArgs.valueOffset, ~tagArgs.isBigEndian)
            eff == IF pointed THEN tagArgs.tiffOffset + field.val ELSE tagArgs.valueOffset
            den == getUint32(buf, eff + 4, ~tagArgs.isBigEndian)
        IN ((pointed => ~field.thr) /\ ~den.thr /\ den.val = 0) =>
               (~tagRet.thr /\ tagRet.val = Num(0))

\* a rational with a non-zero numerator over a zero denominator was decoded to 0
C7_Witness ==
    /\ TagReturned /\ tagArgs.type = 5 /\ tagArgs.count = 1
    /\ tagRet.val = Num(0)
    /\ LET field == getUint32(buf, tagArgs.valueOffset, ~tagArgs.isBigEndian)
       IN /\ ~field.thr
          /\ getUint32(buf, tagArgs.tiffOffset + field.val, ~tagArgs.isBigEndian) = Ok(7)

-----------------------------------------------------------------------------
(* What the batch checks look at.                                          *)

\* the record extractMetadata resolves with for a file
RecordOf(file) == onload(file).metadata

\* the records of the first n of the files
RecordsOf(files, n) == [k \in 1..n |-> RecordOf(files[k])]

\* extraction fails for the file: the read errors or the decode throws
Fails(file) == ~file.readable \/ onload(file).settled = "rejected"

LatestCall == calls[Len(calls)]

-----------------------------------------------------------------------------
(* C1 (as stated): in a batch of valid files f1..fn, if extraction of fk   *)
(* fails the files fk+1..fn are still processed: an invocation of          *)
(* handleFiles that is over has started on every one of its valid files.   *)
C1_BatchNotAborted ==
    \A c \in 1..Len(calls) :
        (calls[c].pc = "done" /\ calls[c].validFiles # <<>>) =>
            calls[c].i + 1 >= Len(calls[c].validFiles)

-----------------------------------------------------------------------------
-----------------------------------------------------------------------------
(* What the decoder checks look at once reader.onload has run.             *)

Loaded == promise.settled = "resolved"

Walk == promise.walk

Exif == promise.metadata.exif

\* parseIfd was called and could read the entry count
Counted == Walk.invoked /\ Walk.declaredCount >= 0

EntryOffset(i) == Walk.ifdOffset + 2 + (i * 12)

\* the tag id, type and count of entry i lie within the buffer
HeaderFits(i) == EntryOffset(i) + 8 <= Len(reading.bytes)

\* the entries the loop can reach: those up to the first whose header overruns
Reachable == {i \in 0..(Walk.bound - 1) : \A j \in 0..i : HeaderFits(j)}

HeaderAt(i) == EntryHeader(reading.bytes, EntryOffset(i), Walk.isBigEndian)

Registered(i) == HeaderAt(i).tag \in DOMAIN EXIF_TAGS

ValueAt(i) ==
    getTagValue(reading.bytes, EntryOffset(i) + 8, HeaderAt(i).type, HeaderAt(i).count,
                Walk.tiffOffset, Walk.isBigEndian)

TagFieldsOf(map) == DOMAIN map \cap TagFieldNames

-----------------------------------------------------------------------------
-----------------------------------------------------------------------------
-----------------------------------------------------------------------------
(* C8: for every buffer, empty and truncated ones included, each of        *)
(* extractExifData, extractTiffExifData, extractIptcData and               *)
(* extractXmpData returns a mapping and throws nothing to its caller, so   *)
(* the promise of a JPEG or TIFF file is never rejected by a decode and a  *)
(* JPEG record always has its IPTC and XMP sub-mappings, also when its     *)
(* EXIF mapping carries the error note.                                    *)
C8_ExtractorsNeverThrow ==
    /\ ~extractExifData(reading.bytes).thr
    /\ ~extractTiffExifData(reading.bytes).thr
    /\ ~extractIptcData(reading.bytes).thr
    /\ ~extractXmpData(reading.bytes).thr
    /\ promise.settled # "pending" =>
          /\ Loaded
          /\ promise.method = "jpeg" =>
                /\ Has(promise.metadata.iptc, "detected") /\ Has(promise.metadata.iptc, "note")
                /\ Has(promise.metadata.xmp, "detected")

\* a JPEG record whose EXIF parsing failed and which has its IPTC and XMP sub-mappings
C8_Witness ==
    /\ Loaded /\ promise.method = "jpeg"
    /\ Has(Exif, "error")
    /\ Has(promise.metadata.iptc, "detected") /\ Has(promise.metadata.xmp, "detected")

-----------------------------------------------------------------------------
(* The 0xFF 0xE1 occurrences of the buffer being read, by their index      *)
(* (from 0), and what follows them.                                        *)

Markers ==
    {i \in 0..(Len(reading.bytes) - 2) : reading.bytes[i + 1] = 255 /\ reading.bytes[i + 2] = 225}

\* the four bytes at i + 4 lie within the buffer and spell "Exif"
LettersFollow(i) ==
    /\ i + 8 <= Len(reading.bytes)
    /\ Slice(reading.bytes, i + 4, i + 8) = <<69, 120, 105, 102>>

\* the six bytes at i + 4 lie within the buffer and spell "Exif\0\0"
SignatureFollows(i) ==
    /\ LettersFollow(i) /\ i + 10 <= Len(reading.bytes)
    /\ reading.bytes[i + 9] = 0 /\ reading.bytes[i + 10] = 0

\* the buffer ends before the bytes the test at marker i compares
SignatureCutShort(i) ==
    \/ i + 8 > Len(reading.bytes)
    \/ LettersFollow(i) /\ i + 10 > Len(reading.bytes)

NoSignature == \A i \in Markers : ~SignatureFollows(i)

-----------------------------------------------------------------------------
(* C10: on the bare TIFF path a buffer that starts with 0x4D 0x4D and      *)
(* whose magic number, read big-endian at offset 2, is 42 is accepted      *)
(* (format = 'Valid TIFF', no magic-number error) and, its IFD0 pointer at *)
(* offset 4 being within the buffer, parseIfd is invoked big-endian at     *)
(* that pointer with tiffOffset = 0; with any other magic number at offset *)
(* 2 parseIfd is not invoked and the mapping carries                       *)
(* error = 'Invalid TIFF magic number' and no tag fields.                  *)
C10_BareTiffMagic ==
    (Loaded /\ promise.method = "tiff" /\ Len(reading.bytes) >= 4
        /\ Take(reading.bytes, 2) = <<77, 77>>) =>
        LET magic == (reading.bytes[3] * 256) + reading.bytes[4]
            pointer == getUint32(reading.bytes, 4, FALSE)
        IN IF magic = 42
           THEN /\ Has(Exif, "format") /\ Exif["format"] = Lit("Valid TIFF")
                /\ Exif["byteOrder"] = Lit("Big Endian (MM)")
                /\ Has(Exif, "error") => Exif["error"] # Lit("Invalid TIFF magic number")
                /\ ~pointer.thr =>
                      /\ Walk.invoked /\ Walk.tiffOffset = 0 /\ Walk.isBigEndian
                      /\ Walk.ifdOffset = pointer.val
           ELSE /\ ~Walk.invoked
                /\ Has(Exif, "error") /\ Exif["error"] = Lit("Invalid TIFF magic number")
                /\ TagFieldsOf(Exif) = {}
                /\ ~Has(Exif, "format")

\* a big-endian bare TIFF with magic number 42 whose IFD0 was walked with
\* tiffOffset 0 and gave Make = "ACME"
C10_Witness ==
    /\ Loaded /\ promise.method = "tiff" /\ Take(reading.bytes, 4) = <<77, 77, 0, 42>>
    /\ Walk.invoked /\ Walk.tiffOffset = 0 /\ ~Walk.thr
    /\ Has(Exif, "Make") /\ Exif["Make"] = Str(<<65, 67, 77, 69>>)

\* a big-endian bare TIFF with another magic number: the error note and no walk
C10_WitnessOtherMagic ==
    /\ Loaded /\ promise.method = "tiff" /\ Take(reading.bytes, 4) = <<77, 77, 0, 43>>
    /\ ~Walk.invoked /\ Exif["error"] = Lit("Invalid TIFF magic number")

-----------------------------------------------------------------------------
(* What an IFD walk stored, entry by entry.                                *)

FieldOf(i) == EXIF_TAGS[HeaderAt(i).tag]

\* the entry whose value a tag field ends up with: the last one to store it
LastStoring(name) == SetMax({i \in Walk.stored : FieldOf(i) = name})

\* whether the value of entry i lies behind a pointer, given the size of its type
BehindPointer(i, size) == size * HeaderAt(i).count > 4

\* where the value of entry i lies
EffectiveOffset(i, size) ==
    IF BehindPointer(i, size)
    THEN Walk.tiffOffset + getUint32(reading.bytes, EntryOffset(i) + 8, ~Walk.isBigEndian).val
    ELSE EntryOffset(i) + 8

\* the little-endian bare TIFF whose IFD0 is the one entry Make, ASCII, count 5, -> "ACME\0"
SingleMakeTiff == TiffStream("II", TiffMagic, IfdAt, 1, 0, 0)

Acme == Str(<<65, 67, 77, 69>>)

(* C11 (as stated): the little-endian bare TIFF with the single Make entry *)
(* decodes to the mapping whose only entry is Make = 'ACME'; a recognized  *)
(* ASCII tag with count n decodes to the first n - 1 bytes at its          *)
(* effective offset, and the fields of the output mapping are exactly the  *)
(* field names of the recognized tags.                                     *)
C11_OnlyRecognizedTagFields ==
    (Loaded /\ promise.method = "tiff" /\ Counted /\ ~Walk.thr) =>
        /\ reading.bytes = SingleMakeTiff => Exif = Put(EmptyMap, "Make", Acme)
        /\ DOMAIN Exif = {FieldOf(i) : i \in {j \in Reachable : Registered(j)}}
        /\ \A i \in Walk.stored :
              (HeaderAt(i).type = 2 /\ i = LastStoring(FieldOf(i)) /\ HeaderAt(i).count >= 1) =>
                  Exif[FieldOf(i)] =
                      Str(Slice(reading.bytes, EffectiveOffset(i, 1),
                                EffectiveOffset(i, 1) + HeaderAt(i).count - 1))

(* C11 (amended): the little-endian bare TIFF with the single Make entry   *)
(* decodes to the mapping byteOrder = 'Little Endian (II)', format =       *)
(* 'Valid TIFF', Make = 'ACME', Make being its only tag field.  In general *)
(* a recognized ASCII tag with count n whose value could be read decodes   *)
(* to the first min(max(n - 1, 0), 100) bytes at its effective offset, the *)
(* tag fields of the output mapping are exactly the field names of the     *)
(* reachable recognized entries whose value could be read, and its other   *)
(* fields are among byteOrder, format and error.                           *)
C11_TagFieldsOfReadableEntries ==
    (Loaded /\ Counted) =>
        /\ reading.bytes = SingleMakeTiff =>
              (promise.method = "tiff" =>
                  Exif = Put(Put(Put(EmptyMap, "byteOrder", Lit("Little Endian (II)")),
                                 "format", Lit("Valid TIFF")), "Make", Acme))
        /\ TagFieldsOf(Exif) = {FieldOf(i) : i \in Walk.stored}
        /\ Walk.stored = {i \in Reachable : Registered(i) /\ ~ValueAt(i).thr}
        /\ DOMAIN Exif \ TagFieldNames \subseteq {"byteOrder", "format", "error"}
        /\ \A i \in Walk.stored :
              (HeaderAt(i).type = 2 /\ i = LastStoring(FieldOf(i))) =>
                  LET n == HeaderAt(i).count
                      len == IF n - 1 < 0 THEN 0 ELSE Min(n - 1, 100)
                  IN /\ EffectiveOffset(i, 1) + len <= Len(reading.bytes)
                     /\ Exif[FieldOf(i)] =
                           Str(Slice(reading.bytes, EffectiveOffset(i, 1),
                                     EffectiveOffset(i, 1) + len))

\* the single-Make TIFF was decoded on the bare TIFF path and gave Make = 'ACME'
C11_Witness ==
    /\ Loaded /\ promise.method = "tiff" /\ reading.bytes = SingleMakeTiff
    /\ Walk.stored = {0} /\ HeaderAt(0).type = 2 /\ HeaderAt(0).count = 5
    /\ Slice(reading.bytes, EffectiveOffset(0, 1), EffectiveOffset(0, 1) + 5) = <<65, 67, 77, 69, 0>>
    /\ Exif["Make"] = Acme

-----------------------------------------------------------------------------
(* The JPEG path: the first 0xFF 0xE1 that 'Exif\0\0' follows.             *)

SignedMarkers == {m \in Markers : SignatureFollows(m)}

FirstSigned == SetMin(SignedMarkers)

\* the TIFF sub-stream after the first signed marker has its 8 header bytes
\* and is little-endian, as far as the code tells: it does not start with 'MM'
LittleEndianSubStream ==
    /\ SignedMarkers # {}
    /\ FirstSigned + 18 <= Len(reading.bytes)
    /\ Slice(reading.bytes, FirstSigned + 10, FirstSigned + 12) # <<77, 77>>

\* the 32-bit little-endian value at offset o of the buffer being read
Le32(o) ==
    reading.bytes[o + 1] + (256 * reading.bytes[o + 2]) + (65536 * reading.bytes[o + 3])
      + (16777216 * reading.bytes[o + 4])

\* every entry IFD0 declares lies within the buffer, and so does the value of
\* each of them that has a registered tag
ValidIfd0 ==
    /\ Counted
    /\ HeaderFits(Walk.declaredCount - 1)
    /\ \A i \in 0..(Walk.declaredCount - 1) : Registered(i) => ~ValueAt(i).thr

(* C12 (as stated): for a JPEG buffer with 'Exif\0\0' after a 0xFF 0xE1 at *)
(* index m and a valid little-endian TIFF sub-stream, IFD0 is walked with  *)
(* tiffOffset = m + 10 and every recognized IFD0 tag appears in the output *)
(* mapping.                                                                *)
C12_EveryRecognizedTagAppears ==
    (Loaded /\ promise.method = "jpeg" /\ LittleEndianSubStream /\ ValidIfd0) =>
        /\ Walk.tiffOffset = FirstSigned + 10
        /\ \A i \in 0..(Walk.declaredCount - 1) : Registered(i) => Has(Exif, FieldOf(i))

(* C12 (amended): for a JPEG buffer with 'Exif\0\0' after a 0xFF 0xE1, m   *)
(* being the index of the first such marker, and a little-endian TIFF      *)
(* sub-stream after it, extractExifData walks IFD0 with tiffOffset =       *)
(* m + 10, locating IFD0 at tiffOffset + the 32-bit value at               *)
(* tiffOffset + 4 and resolving every pointer-valued tag relative to       *)
(* tiffOffset; if the sub-stream is valid, every recognized tag among the  *)
(* first min(declaredCount, 50) entries of IFD0 appears in the output      *)
(* mapping, with the value decoded from the last of these entries that     *)
(* carries its tag id; recognized tags of later entries do not appear.     *)
C12_RecognizedTagsOfWalkedEntriesAppear ==
    (Loaded /\ promise.method = "jpeg" /\ LittleEndianSubStream) =>
        /\ Walk.invoked /\ ~Walk.isBigEndian
        /\ Walk.tiffOffset = FirstSigned + 10
        /\ Walk.ifdOffset = Walk.tiffOffset + Le32(Walk.tiffOffset + 4)
        /\ Exif["byteOrder"] = Lit("Little Endian")
        /\ ValidIfd0 =>
              /\ ~Has(Exif, "error")
              /\ Walk.iterations = Min(Walk.declaredCount, 50)
              /\ TagFieldsOf(Exif) =
                    {FieldOf(i) : i \in {j \in 0..(Walk.iterations - 1) : Registered(j)}}
              /\ \A i \in 0..(Walk.iterations - 1) :
                    (Registered(i) /\ i = LastStoring(FieldOf(i))) =>
                        Exif[FieldOf(i)] =
                            DecodeAt(reading.bytes, EffectiveOffset(i, getTypeSize(HeaderAt(i).type)),
                                     HeaderAt(i).type, HeaderAt(i).count, FALSE).val

\* a JPEG whose little-endian sub-stream starts at 12 and whose IFD0 holds Make,
\* Orientation and XResolution: Make and XResolution lie behind pointers
\* relative to 12 and were decoded to 'ACME' and 72
C12_Witness ==
    /\ Loaded /\ promise.method = "jpeg" /\ LittleEndianSubStream /\ ValidIfd0
    /\ FirstSigned = 2 /\ Walk.tiffOffset = 12 /\ Walk.declaredCount = 3
    /\ BehindPointer(0, 1) /\ Le32(EntryOffset(0) + 8) = 8
    /\ Slice(reading.bytes, 20, 24) = <<65, 67, 77, 69>>
    /\ Exif["Make"] = Acme /\ Exif["Orientation"] = Num(6) /\ Exif["XResolution"] = Num(72)

-----------------------------------------------------------------------------
(* The selection of the extraction path.                                   *)

\* the word occurs in the text
Contains(text, word) ==
    \E i \in 0..(Len(text) - Len(word)) : Slice(text, i, i + Len(word)) = word

\* the text with A..Z turned into a..z
LowerCased(text) ==
    [i \in 1..Len(text) |-> IF text[i] \in 65..90 THEN text[i] + 32 ELSE text[i]]

(* C13: the extraction path depends only on the lower-cased MIME type: if  *)
(* it contains 'jpeg' or 'jpg', exif, iptc and xmp are what the JPEG EXIF, *)
(* IPTC and XMP extractors return; otherwise, if it contains 'tiff', exif  *)
(* is what the bare TIFF extractor returns and iptc and xmp are empty;     *)
(* otherwise exif is the basic-info record made from the file's type and   *)
(* timestamp, iptc and xmp are empty, and the record is the one an empty   *)
(* buffer would give, no byte being read.                                  *)
C13_PathByLowerCasedType ==
    promise.settled # "pending" =>
        LET type == LowerCased(reading.type)
            record == promise.metadata
        IN /\ Loaded
           /\ IF Contains(type, <<106, 112, 101, 103>>) \/ Contains(type, <<106, 112, 103>>)
              THEN /\ promise.method = "jpeg"
                   /\ record.exif = extractExifData(reading.bytes).map
                   /\ record.iptc = extractIptcData(reading.bytes).map
                   /\ record.xmp = extractXmpData(reading.bytes).map
              ELSE IF Contains(type, <<116, 105, 102, 102>>)
              THEN /\ promise.method = "tiff"
                   /\ record.exif = extractTiffExifData(reading.bytes).map
                   /\ record.iptc = EmptyMap /\ record.xmp = EmptyMap
              ELSE /\ promise.method = "basic"
                   /\ DOMAIN record.exif = {"note", "lastModified", "fileFormat", "supportedExtraction"}
                   /\ record.exif["fileFormat"] = Str(reading.type)
                   /\ record.exif["supportedExtraction"] = Lit("Basic file information only")
                   /\ record.iptc = EmptyMap /\ record.xmp = EmptyMap
                   /\ ~Walk.invoked
                   /\ record.exif = onload([reading EXCEPT !.bytes = <<>>]).metadata.exif

\* a file of type IMAGE/TIFF went down the bare TIFF path: Make was decoded,
\* iptc and xmp stayed empty
C13_Witness ==
    /\ Loaded /\ reading.type = ImageTiffUpper /\ promise.method = "tiff"
    /\ Has(Exif, "Make") /\ Exif["format"] = Lit("Valid TIFF")
    /\ promise.metadata.iptc = EmptyMap /\ promise.metadata.xmp = EmptyMap

\* a file of type image/tif, which does not contain 'tiff', over a TIFF stream
\* got the basic-info record
C13_WitnessBasic ==
    /\ Loaded /\ reading.type = ImageTif /\ promise.method = "basic"
    /\ reading.bytes # <<>>
    /\ Has(Exif, "note") /\ ~Has(Exif, "byteOrder")

-----------------------------------------------------------------------------
(* The XMP packet of a loaded JPEG file.                                   *)

OnJpegPath == Loaded /\ promise.method = "jpeg"

Xmp == promise.metadata.xmp

\* the text is the buffer up to the window, character for byte
FileStringLength == Min(Len(reading.bytes), XmpWindow)

\* the positions at which a delimiter stands in the text
Occurrences(pattern) ==
    {i \in 0..(FileStringLength - Len(pattern)) : MatchesAt(reading.bytes, i, pattern)}

BothDelimiters == Occurrences(XpacketBegin) # {} /\ Occurrences(XpacketEnd) # {}

FirstBegin == SetMin(Occurrences(XpacketBegin))

FirstEnd == SetMin(Occurrences(XpacketEnd))

BeginBeforeEnd == BothDelimiters /\ FirstBegin < FirstEnd

EndBeforeBegin == BothDelimiters /\ FirstEnd < FirstBegin

NoPacketReported ==
    /\ Xmp["detected"] = Bool(FALSE)
    /\ Has(Xmp, "note") /\ Xmp["note"] = Lit("No XMP packet found in image")
    /\ ~Has(Xmp, "rawXMP")

\* C14: processXmpPacket sets detected = true if and only if the text holds
\* both delimiters with the first begin delimiter before the first end
\* delimiter; in every other case (a delimiter missing, or end before begin)
\* detected = false, the fixed note is stored and there is no rawXMP.
C14_DetectedIffBeginBeforeEnd ==
    OnJpegPath =>
        IF BeginBeforeEnd THEN Xmp["detected"] = Bool(TRUE) ELSE NoPacketReported

\* the fragment from the first begin delimiter through XmpEndSlack characters
\* past the start of the first end delimiter (empty if that lies before it)
PacketFragment == Slice(reading.bytes, FirstBegin, Min(FirstEnd + XmpEndSlack, FileStringLength))

\* C15: whenever a packet is detected, rawXMP is non-empty and is the first
\* min(500, length) characters of the fragment from the begin delimiter
\* through 20 characters past the start of the end delimiter, followed by
\* '...'; it is never longer than 503 characters.
C15_ExcerptOfFragment ==
    (OnJpegPath /\ Xmp["detected"] = Bool(TRUE)) =>
        /\ Has(Xmp, "rawXMP")
        /\ Xmp["rawXMP"].s # <<>>
        /\ Xmp["rawXMP"] = Str(Take(PacketFragment, Min(XmpExcerptCap, Len(PacketFragment))) \o Ellipsis)
        /\ Len(Xmp["rawXMP"].s) <= XmpExcerptCap + Len(Ellipsis)

\* what the code does instead: a packet is reported whenever both delimiters
\* occur, whatever their order
XmpDetectedIffBothDelimiters ==
    OnJpegPath =>
        IF BothDelimiters THEN Xmp["detected"] = Bool(TRUE) /\ Has(Xmp, "rawXMP")
        ELSE NoPacketReported

\* with the begin delimiter first the excerpt is the one described
XmpExcerptWhenBeginFirst ==
    (OnJpegPath /\ BeginBeforeEnd) => C15_ExcerptOfFragment

\* a file whose end delimiter precedes its begin delimiter has been read
XmpReversedRead == OnJpegPath /\ EndBeforeBegin /\ FirstBegin > FirstEnd + XmpEndSlack

\* a file with a packet longer than the excerpt has been read
XmpLongPacketRead == OnJpegPath /\ BeginBeforeEnd /\ Len(PacketFragment) > XmpExcerptCap

-----------------------------------------------------------------------------
(* The IPTC presence flag of a loaded JPEG file.                           *)

Iptc == promise.metadata.iptc

\* the indices at which FF ED or FF E2 stands in the buffer
IptcMarkerStarts ==
    {i \in 0..(Len(reading.bytes) - 2) :
        reading.bytes[i + 1] = 255 /\ reading.bytes[i + 2] \in {237, 226}}

IptcMarkerInScan ==
    \E i \in IptcMarkerStarts : i < Min(Len(reading.bytes) - 1, IptcScanCap)

\* C16: extractIptcData returns detected = true exactly when some index
\* i < min(byteLength - 1, 32768) has byte i = FF and byte i+1 in {ED, E2},
\* and detected = false otherwise; either way a fixed note is stored and no
\* error field is set, and a marker starting at index 32768 or later is
\* never what makes the flag true.
C16_IptcDetectedWithinScan ==
    OnJpegPath =>
        /\ DOMAIN Iptc = {"detected", "note"}
        /\ Iptc["detected"] = Bool(IptcMarkerInScan)
        /\ Iptc["note"] = IF IptcMarkerInScan
                          THEN Lit("IPTC data detected but requires specialized parser for full extraction")
                          ELSE Lit("No IPTC data found")
        /\ (\A i \in IptcMarkerStarts : i >= IptcScanCap) => Iptc["detected"] = Bool(FALSE)

\* a marker in the last position the scan looks at has been detected
C16_Witness ==
    /\ OnJpegPath
    /\ IptcMarkerStarts = {IptcScanCap - 1}
    /\ Iptc["detected"] = Bool(TRUE)

\* a marker right behind the scan has gone undetected
C16_WitnessBehindScan ==
    /\ OnJpegPath
    /\ IptcMarkerStarts = {IptcScanCap}
    /\ Iptc["detected"] = Bool(FALSE)

-----------------------------------------------------------------------------
(* The exported CSV text.                                                  *)

\* the twelve values of a record as createCsvRow reads them, before any escaping
RawFields(metadata) ==
    << Str(metadata.filename),
       Num(metadata.fileSize),
       Str(metadata.mimeType),
       Str(toISOString),
       OrElse(Get(metadata.exif, "Make"), Str(<<>>)),
       OrElse(Get(metadata.exif, "Model"), Str(<<>>)),
       OrElse(Get(metadata.exif, "DateTime"), Str(<<>>)),
       OrElse(Get(metadata.exif, "Orientation"), Str(<<>>)),
       OrElse(Get(metadata.iptc, "detected"), Bool(FALSE)),
       OrElse(Get(metadata.xmp, "detected"), Bool(FALSE)),
       OrElse(Get(metadata.xmp, "title"), Str(<<>>)),
       OrElse(Get(metadata.xmp, "creator"), Str(<<>>)) >>

NeedsQuoting(text) ==
    \E i \in 1..Len(text) : text[i] \in {Comma, Quote, Newline}

\* the text between a pair of wrapping quotes with its doubled quotes undone;
\* <<-1>> if a quote stands alone in it
RECURSIVE Undoubled(_)
Undoubled(inner) ==
    IF inner = <<>> THEN <<>>
    ELSE IF Head(inner) # Quote THEN <<Head(inner)>> \o Undoubled(Tail(inner))
    ELSE IF Len(inner) >= 2 /\ inner[2] = Quote THEN <<Quote>> \o Undoubled(Tail(Tail(inner)))
    ELSE <<-1>>

\* cell is text wrapped in double quotes with the quotes inside doubled
QuotedFormOf(cell, text) ==
    /\ Len(cell) >= 2
    /\ cell[1] = Quote
    /\ cell[Len(cell)] = Quote
    /\ Undoubled(Slice(cell, 1, Len(cell) - 1)) = text

\* a position of a CSV text lies outside quoted fields: an even number of
\* quotes precedes it
OutsideQuotes(text, p) == Cardinality({q \in 1..(p - 1) : text[q] = Quote}) % 2 = 0

RecordBreaks(text) == {p \in 1..Len(text) : text[p] = Newline /\ OutsideQuotes(text, p)}

FieldBreaks(text) == {p \in 1..Len(text) : text[p] = Comma /\ OutsideQuotes(text, p)}

\* the numbers of columns of the records a CSV text splits into
ColumnCounts(text) ==
    LET edges == {0} \cup RecordBreaks(text) \cup {Len(text) + 1}
        fieldBreaks == FieldBreaks(text)
    IN { 1 + Cardinality({p \in fieldBreaks : a < p /\ \A e \in edges : e > a => p < e}) :
           a \in edges \ {Len(text) + 1} }

Exported == download # NoDownload

\* C17: in every row of exportAsCsv / createCsvRow each of the 12 fields
\* whose text holds a comma, a double quote or a newline is wrapped in
\* double quotes with the quotes inside doubled, whatever the record (EXIF
\* Make, Model, DateTime, Orientation decoded as strings or as numbers);
\* hence every row of the export splits back into the 12 header columns.
C17_EveryFieldQuotedRowsSplitInTwelve ==
    Exported =>
        /\ \A i \in 1..Len(extractedMetadata) :
              LET raw == RawFields(extractedMetadata[i])
                  row == createCsvRow(extractedMetadata[i])
              IN /\ Len(row) = Len(CSV_HEADERS)
                 /\ \A k \in 1..Len(row) :
                       NeedsQuoting(ToText(raw[k])) => QuotedFormOf(ToText(row[k]), ToText(raw[k]))
        /\ ColumnCounts(download) = {Len(CSV_HEADERS)}

\* what holds of the code: the fields other than Orientation are quoted as
\* described, and an export of records whose Orientation needs no quoting
\* splits into 12 columns throughout
CsvQuotedButOrientation ==
    /\ \A i \in 1..Len(extractedMetadata) :
          LET raw == RawFields(extractedMetadata[i])
              row == createCsvRow(extractedMetadata[i])
          IN \A k \in (1..Len(row)) \ {8} :
                NeedsQuoting(ToText(raw[k])) => QuotedFormOf(ToText(row[k]), ToText(raw[k]))
    /\ (Exported /\ \A i \in 1..Len(extractedMetadata) :
                      ~NeedsQuoting(ToText(RawFields(extractedMetadata[i])[8])))
          => ColumnCounts(download) = {Len(CSV_HEADERS)}

\* an export with a quoted Make, and one with a number for Make
CsvQuotedMakeExported ==
    Exported /\ \E i \in 1..Len(extractedMetadata) :
        NeedsQuoting(ToText(RawFields(extractedMetadata[i])[5]))

CsvNumberMakeExported ==
    Exported /\ \E i \in 1..Len(extractedMetadata) : RawFields(extractedMetadata[i])[5].k = "num"

-----------------------------------------------------------------------------
\* C18: escapeCsvValue turns a string holding a comma, a double quote or a
\* newline into that string wrapped in double quotes with every quote
\* inside doubled ('test,value' becomes '"test,value"'), returns a string
\* holding none of them unchanged, and never gives two strings the same
\* result.
C18_EscapeCsvValue ==
    /\ \A k \in 1..Len(escaped) :
          escaped[k].called =>
              /\ escaped[k].ret.k = "str"
              /\ IF NeedsQuoting(escaped[k].value.s)
                 THEN QuotedFormOf(escaped[k].ret.s, escaped[k].value.s)
                 ELSE escaped[k].ret = escaped[k].value
              /\ escaped[k].value.s = TestValue =>
                    escaped[k].ret.s = <<Quote>> \o TestValue \o <<Quote>>
    /\ \A j, k \in 1..Len(escaped) :
          (escaped[j].called /\ escaped[k].called /\ escaped[j].ret = escaped[k].ret)
              => escaped[j].value = escaped[k].value

\* 'test,value' and a string with a quote inside have both been escaped
C18_Witness ==
    /\ Len(escaped) = 2
    /\ escaped[1].called /\ escaped[2].called
    /\ escaped[1].value.s = TestValue
    /\ escaped[1].ret.s = <<Quote>> \o TestValue \o <<Quote>>
    /\ escaped[2].value.s = <<97, Quote>>
    /\ escaped[2].ret.s = <<Quote, 97, Quote, Quote, Quote>>

-----------------------------------------------------------------------------
(* Where getTagValue reads a value.                                        *)

\* the sizes of the type codes 1..12
StatedTypeSizes == <<1, 1, 2, 4, 8, 1, 1, 2, 4, 8, 4, 8>>

FitsInField == StatedTypeSizes[tagArgs.type] * tagArgs.count <= 4

FieldReadable == tagArgs.valueOffset + 4 <= Len(buf)

\* the 4 bytes of the value field taken as a pointer
FieldAsPointer ==
    LET b == [k \in 1..4 |-> buf[tagArgs.valueOffset + k]]
    IN IF tagArgs.isBigEndian
       THEN (b[1] * 16777216) + (b[2] * 65536) + (b[3] * 256) + b[4]
       ELSE (b[4] * 16777216) + (b[3] * 65536) + (b[2] * 256) + b[1]

DecodedAt(offset) == DecodeAt(buf, offset, tagArgs.type, tagArgs.count, tagArgs.isBigEndian)

\* C19: the value of an entry is read in the entry's 4-byte value field if
\* and only if typeSize(type) * count <= 4, and otherwise at tiffOffset +
\* the 32-bit pointer held in that field; typeSize maps the type codes
\* 1..12 to 1,1,2,4,8,1,1,2,4,8,4,8 (so typeSize(3) = 2).
C19_InlineIffWithinFourBytes ==
    /\ \A type \in 1..12 : getTypeSize(type) = StatedTypeSizes[type]
    /\ getTypeSize(3) = 2
    /\ (TagCalled /\ tagArgs.type \in 1..12) =>
          IF FitsInField THEN tagRet = DecodedAt(tagArgs.valueOffset)
          ELSE IF FieldReadable THEN tagRet = DecodedAt(tagArgs.tiffOffset + FieldAsPointer)
          ELSE tagRet.thr

\* a value of five bytes or more was read behind the pointer, where it
\* differs from what the value field itself would give
C19_Witness ==
    /\ TagReturned /\ tagArgs.type \in 1..5 /\ ~FitsInField
    /\ tagArgs.tiffOffset # 0 /\ FieldAsPointer # 0
    /\ tagRet = DecodedAt(tagArgs.tiffOffset + FieldAsPointer)
    /\ tagRet # DecodedAt(tagArgs.valueOffset)

\* a value of exactly four bytes was read in the value field, where it
\* differs from what the pointer would lead to
C19_WitnessInline ==
    /\ TagReturned /\ tagArgs.type \in {3, 4} /\ StatedTypeSizes[tagArgs.type] * tagArgs.count = 4
    /\ FieldReadable
    /\ tagRet = DecodedAt(tagArgs.valueOffset)
    /\ tagRet # DecodedAt(tagArgs.tiffOffset + FieldAsPointer)

-----------------------------------------------------------------------------
(* The JPEG path: the markers after the first.                             *)

FirstMarker == SetMin(Markers)

\* C20: on the JPEG path the 'Exif\0\0' signature is checked at the first
\* 0xFF 0xE1 of the buffer only: if the check fails there, no later
\* 0xFF 0xE1 is examined, no IFD is walked and no tags are returned.
C20_OnlyFirstMarkerExamined ==
    (OnJpegPath /\ Markers # {} /\ ~SignatureFollows(FirstMarker)) =>
        ~Walk.invoked /\ TagFieldsOf(Exif) = {}

\* what holds of the code: the first marker the signature follows is the one
\* whose sub-stream is walked, whatever markers precede it
WalkAtFirstSignedMarker ==
    (OnJpegPath /\ Walk.invoked) => SignedMarkers # {} /\ Walk.tiffOffset = FirstSigned + 10

\* a walk behind a marker that is not the first of the buffer
LaterMarkerWalked ==
    OnJpegPath /\ Walk.invoked /\ SignedMarkers # {} /\ FirstMarker < FirstSigned
        /\ TagFieldsOf(Exif) # {}

-----------------------------------------------------------------------------
(* The byte-order mark in front of a walked IFD.                           *)

\* the two bytes at the start of the TIFF stream the walk belongs to
MarkOfWalk == Slice(reading.bytes, Walk.tiffOffset, Walk.tiffOffset + 2)

\* C21: the IFD walker is invoked only when the 2-byte byte-order mark is
\* 'MM' or 'II': on the JPEG path (mark at the start of the TIFF sub-stream)
\* and on the bare TIFF path (mark at offset 0) a buffer with any other mark
\* has no IFD decoded.
C21_WalkOnlyAfterConfirmedMark ==
    (Loaded /\ promise.method \in {"jpeg", "tiff"} /\ Walk.invoked) =>
        MarkOfWalk \in {<<77, 77>>, <<73, 73>>}

\* what holds of the code: a mark other than 'MM' is taken for little-endian
\* and the walk goes ahead
OtherMarksWalkedLittleEndian ==
    (Loaded /\ Walk.invoked) => (Walk.isBigEndian <=> MarkOfWalk = <<77, 77>>)

\* tags decoded from a stream whose mark is neither 'MM' nor 'II', on either path
UnmarkedTiffWalked ==
    /\ Loaded /\ promise.method = "tiff" /\ Walk.invoked
    /\ MarkOfWalk \notin {<<77, 77>>, <<73, 73>>} /\ TagFieldsOf(Exif) # {}

UnmarkedJpegWalked ==
    /\ Loaded /\ promise.method = "jpeg" /\ Walk.invoked
    /\ MarkOfWalk \notin {<<77, 77>>, <<73, 73>>} /\ TagFieldsOf(Exif) # {}

-----------------------------------------------------------------------------
(* The one IFD of a walk.                                                  *)

PointerFields == {"ExifIFDPointer", "GPSIFDPointer"}

\* the 32-bit value at offset o in the byte order of the walk
WalkU32(o) == getUint32(reading.bytes, o, ~Walk.isBigEndian).val

\* C22: an extraction walks one IFD, IFD0: ExifIFDPointer (0x8769) and
\* GPSIFDPointer (0x8825) are stored as the raw number decoded from their
\* entry and are not followed, so parseIfd runs at most once per buffer,
\* over at most 50 entries, and an offset that points back into IFD0 cannot
\* make the walk go round.
C22_OnlyIfd0Walked ==
    (Loaded /\ Walk.invoked) =>
        /\ Walk.ifdOffset = Walk.tiffOffset + WalkU32(Walk.tiffOffset + 4)
        /\ Walk.iterations <= IfdEntryCap
        /\ TagFieldsOf(Exif) = {FieldOf(i) : i \in Walk.stored}
        /\ \A i \in Walk.stored :
              (FieldOf(i) \in PointerFields /\ i = LastStoring(FieldOf(i))) =>
                  /\ Exif[FieldOf(i)] = ValueAt(i).val
                  /\ (HeaderAt(i).type = 4 /\ HeaderAt(i).count = 1) =>
                        Exif[FieldOf(i)] = Num(WalkU32(EntryOffset(i) + 8))

\* the stream whose GPSIFDPointer points back at IFD0 and whose
\* ExifIFDPointer points at an IFD with Orientation has been decoded to the
\* two numbers alone
C22_Witness ==
    /\ Loaded /\ Walk.invoked
    /\ reading.bytes \in NestedTiffStreams
    /\ Walk.iterations = 2
    /\ Exif["ExifIFDPointer"] = Num(38)
    /\ Exif["GPSIFDPointer"] = Num(Walk.ifdOffset)
    /\ TagFieldsOf(Exif) = PointerFields

-----------------------------------------------------------------------------
(* Which entries a field of the mapping comes from.                        *)

\* the entries among the first min(declaredCount, 50) that carry the tag of a field
EntriesOf(name) ==
    {i \in 0..(Min(Walk.declaredCount, 50) - 1) :
        HeaderFits(i) /\ Registered(i) /\ FieldOf(i) = name}

\* those of them the loop got to and whose value was decoded
DecodedEntriesOf(name) == {i \in EntriesOf(name) : i \in Reachable /\ ~ValueAt(i).thr}

\* C23: after an IFD walk a registry field name is in the mapping only if an
\* entry with its tag id is among the first min(declaredCount, 50) entries;
\* an entry whose tag id is not in the 11-entry registry adds nothing and
\* causes no error; of several entries with one tag id the value of the
\* last one decoded successfully is kept.
C23_FieldsFromWalkedEntries ==
    (Loaded /\ Counted) =>
        /\ Cardinality(DOMAIN EXIF_TAGS) = 11
        /\ \A name \in TagFieldNames :
              /\ Has(Exif, name) => EntriesOf(name) # {}
              /\ Has(Exif, name) <=> DecodedEntriesOf(name) # {}
              /\ Has(Exif, name) => Exif[name] = ValueAt(SetMax(DecodedEntriesOf(name))).val
        /\ \A i \in Reachable : ~Registered(i) => i \notin Walk.stored
        /\ (\A i \in 0..(Walk.bound - 1) : HeaderFits(i)) => ~Walk.thr /\ ~Has(Exif, "error")

\* Orientation = 6 has outlived a later Orientation that could not be
\* decoded and an entry with a tag outside the registry
C23_Witness ==
    /\ Loaded /\ Counted
    /\ reading.bytes \in RepeatedTiffStreams
    /\ Walk.iterations = 3
    /\ EntriesOf("Orientation") = {0, 1}
    /\ ~Registered(2)
    /\ Exif["Orientation"] = Num(6)
    /\ ~Has(Exif, "error")

-----------------------------------------------------------------------------
(* The XMP search window.                                                  *)

\* two buffers at least as long as the window that agree inside it
AgreeInWindow(a, b) ==
    /\ Len(a) >= XmpWindow /\ Len(b) >= XmpWindow
    /\ \A i \in 1..XmpWindow : a[i] = b[i]

\* the positions in the whole buffer at which a delimiter stands
Standing(pattern) ==
    {i \in 0..(Len(reading.bytes) - Len(pattern)) : MatchesAt(reading.bytes, i, pattern)}

\* the delimiters that lie in the first 65536 bytes from first to last character
Within(pattern) == {i \in Standing(pattern) : i + Len(pattern) <= 65536}

\* C24: the XMP mapping depends on the first 65536 bytes of the buffer only:
\* buffers that agree there have the same XMP mapping, and a delimiter that
\* starts at or reaches beyond byte 65536 is never detected.
C24_XmpFromWindowOnly ==
    OnJpegPath =>
        /\ Len(reading.bytes) >= XmpWindow =>
              \A f \in WideFiles :
                  AgreeInWindow(f.bytes, reading.bytes) => Xmp = extractXmpData(f.bytes).map
        /\ Xmp["detected"] = Bool(TRUE) <=> (Within(XpacketBegin) # {} /\ Within(XpacketEnd) # {})

\* a buffer with both delimiters, the end one reaching over byte 65536, is
\* reported to hold no packet
C24_Witness ==
    /\ OnJpegPath
    /\ Standing(XpacketBegin) # {} /\ Standing(XpacketEnd) # {}
    /\ Within(XpacketBegin) # {} /\ Within(XpacketEnd) = {}
    /\ \E i \in Standing(XpacketEnd) : i < 65536
    /\ NoPacketReported

\* two buffers that differ behind the window only have one detected packet
C24_WitnessAgreeing ==
    /\ OnJpegPath
    /\ Xmp["detected"] = Bool(TRUE)
    /\ Len(reading.bytes) >= XmpWindow
    /\ \E f \in WideFiles :
          /\ f.bytes # reading.bytes
          /\ AgreeInWindow(f.bytes, reading.bytes)

-----------------------------------------------------------------------------
(* Records and the files they come from.                                   *)

\* the three mappings of a record
Mappings(record) == [exif |-> record.exif, iptc |-> record.iptc, xmp |-> record.xmp]

\* the invocations of handleFiles that had a valid file
Batches == {c \in 1..Len(calls) : calls[c].validFiles # <<>>}

\* the last of them: it emptied extractedMetadata and fills it
LatestBatch == calls[SetMax(Batches)]

-----------------------------------------------------------------------------
(* Invocations of handleFiles that overlap.                                *)

\* the invocations that are awaiting a file read or the pause after one
Running == {c \in 1..Len(calls) : calls[c].pc # "done"}

\* C26 (as stated): records of two batches never coexist in
\* extractedMetadata and two files are never being read at the same time:
\* when handleFiles is invoked while an earlier batch awaits a file read or
\* its pause, no second batch runs beside the first, whatever the
\* interleaving.
C26_NoConcurrentBatches ==
    /\ Cardinality(Running) <= 1
    /\ Batches # {} =>
          /\ Len(extractedMetadata) <= Len(LatestBatch.validFiles)
          /\ extractedMetadata = RecordsOf(LatestBatch.validFiles, Len(extractedMetadata))

\* two invocations are reading a file each
TwoFilesBeingRead ==
    \E c, d \in Running : c # d /\ calls[c].pc = "reading" /\ calls[d].pc = "reading"

\* both invocations have ended in success and extractedMetadata holds a
\* record of the first behind the reset of the second
RecordsOfTwoBatches ==
    /\ Len(calls) = 2
    /\ calls[1].outcome = "success" /\ calls[2].outcome = "success"
    /\ extractedMetadata # calls[2].newMetadata
    /\ \E k \in 1..Len(extractedMetadata) :
          /\ extractedMetadata[k] \in {calls[1].newMetadata[j] : j \in 1..Len(calls[1].newMetadata)}
          /\ extractedMetadata[k] \notin {calls[2].newMetadata[j] : j \in 1..Len(calls[2].newMetadata)}

-----------------------------------------------------------------------------
(* The busy flag.                                                          *)

\* a step in which handleFiles is invoked
Invoked == Len(calls') = Len(calls) + 1

NewestCall == calls'[Len(calls')]

\* invocation c has started a batch that has not ended
Busy(c) == Len(calls) >= c /\ calls[c].validFiles # <<>> /\ calls[c].pc # "done"

\* invocation c has ended and the flag is down
Idle(c) == Len(calls) >= c /\ calls[c].pc = "done" /\ isProcessing = FALSE

\* C27: an invocation of handleFiles with a valid file sets isProcessing to
\* true and, every file read ending in a load or an error, in time sets it
\* back to false, whether the files succeed or one fails; an invocation
\* without a valid file changes the status text only and leaves
\* extractedMetadata and isProcessing as they were.
C27_BusyFlagSetAndCleared ==
    /\ [][Invoked =>
            IF NewestCall.validFiles # <<>>
            THEN isProcessing' = TRUE
            ELSE /\ UNCHANGED <<extractedMetadata, isProcessing>>
                 /\ NewestCall.pc = "done"
                 /\ status' = Status("No valid image files selected. Please choose JPEG, PNG, or TIFF files.",
                                     "", 0, 0)]_vars
    /\ \A c \in 1..FewCalls : Busy(c) ~> Idle(c)

\* a batch whose second file could not be read has ended with the flag down
C27_Witness ==
    /\ \E c \in 1..Len(calls) :
          /\ calls[c].outcome = "error"
          /\ calls[c].i = 1
          /\ Idle(c)
    /\ Running = {}

\* an invocation without a valid file has left the records of the batch before it
C27_WitnessNoValidFile ==
    /\ Len(calls) = 2
    /\ calls[2].outcome = "no valid files"
    /\ calls[1].outcome = "success"
    /\ extractedMetadata = calls[1].newMetadata
    /\ extractedMetadata # <<>>
    /\ isProcessing = FALSE

-----------------------------------------------------------------------------
(* Values held in the value field.                                         *)

\* the buffer up to the end of the entry's value field
UpToField == Take(buf, tagArgs.valueOffset + 4)

\* what the call returns when nothing stands behind the value field
DecodedFromField ==
    getTagValue(UpToField, tagArgs.valueOffset, tagArgs.type, tagArgs.count,
                tagArgs.tiffOffset, tagArgs.isBigEndian)

\* C28 (as stated): when typeSize(type) * count <= 4 the value is decoded
\* from the entry's own 4-byte value field only, for every type code 1..5
\* and every count, 0 included; no byte of the following entry is read.
C28_InlineReadsFieldOnly ==
    (TagCalled /\ tagArgs.type \in 1..5 /\ FitsInField /\ FieldReadable) =>
        ~tagRet.thr /\ tagRet = DecodedFromField

\* types 1..4 held in the value field are decoded from its bytes alone
InlineReadsFieldOnlyButRational ==
    (TagCalled /\ tagArgs.type \in 1..4 /\ FitsInField /\ FieldReadable) =>
        ~tagRet.thr /\ tagRet = DecodedFromField

\* a RATIONAL of count 0 is taken from the value field and the four bytes
\* behind it
RationalReadBehindField ==
    /\ TagReturned /\ tagArgs.type = 5 /\ tagArgs.count = 0 /\ FitsInField
    /\ Len(buf) >= tagArgs.valueOffset + 8
    /\ tagRet = readRationalValue(buf, tagArgs.valueOffset, tagArgs.isBigEndian)
    /\ DecodedFromField.thr
    /\ \E b \in TagBuffers :
          /\ Take(b, tagArgs.valueOffset + 4) = UpToField
          /\ getTagValue(b, tagArgs.valueOffset, 5, 0, tagArgs.tiffOffset, tagArgs.isBigEndian) # tagRet

-----------------------------------------------------------------------------
(* The module-level decoder and the in-component one.                      *)

\* what the in-component extractExifData returns for the buffer being read
ExifInComponent == extractExifDataInComponent(reading.bytes).map

\* C29 (as stated): the module-level decoder functions and the in-component
\* versions of them are observationally equivalent: for every buffer each
\* pair returns the same mapping.
C29_CopiesEquivalent ==
    OnJpegPath => Exif = ExifInComponent

\* the two agree on buffers without a marker and on buffers whose first
\* marker the signature follows or at which the test overruns the buffer
CopiesAgreeAtFirstMarker ==
    (OnJpegPath /\ (Markers = {} \/ SignatureFollows(FirstMarker) \/ SignatureCutShort(FirstMarker))) =>
        Exif = ExifInComponent

\* the module-level function returns the tags behind the second marker, the
\* in-component one an empty mapping
CopiesDiffer ==
    /\ OnJpegPath /\ Walk.invoked
    /\ FirstMarker < FirstSigned
    /\ TagFieldsOf(Exif) # {}
    /\ ExifInComponent = EmptyMap

-----------------------------------------------------------------------------
(* The admitted types and the path they take.                              *)

\* the JPEG and TIFF entries of the supported set
BinaryTypes == {ImageJpeg, ImageJpg, ImageTiff, ImageTif}

\* every file an invocation of handleFiles works on has a supported type
OnlySupportedAdmitted ==
    \A c \in 1..Len(calls) : \A k \in 1..Len(calls[c].validFiles) :
        LowerCased(calls[c].validFiles[k].type) \in
            {ImageJpeg, ImageJpg, ImagePng, ImageTiff, ImageTif}

\* C30 (as stated): handleFiles processes exactly the submitted files whose
\* lower-cased MIME type is image/jpeg, image/jpg, image/png, image/tiff or
\* image/tif, and every admitted file of type image/jpeg, image/jpg,
\* image/tiff or image/tif is decoded by the JPEG or the bare TIFF path,
\* never by the basic-info fallback.
C30_AdmittedJpegAndTiffDecoded ==
    /\ OnlySupportedAdmitted
    /\ (Loaded /\ LowerCased(reading.type) \in BinaryTypes) =>
          /\ IsSupported(reading)
          /\ promise.method \in {"jpeg", "tiff"}
          /\ ~Has(Exif, "supportedExtraction")

\* the admitted types except image/tif take a binary path
BinaryPathButTif ==
    (Loaded /\ LowerCased(reading.type) \in BinaryTypes \ {ImageTif}) =>
        promise.method \in {"jpeg", "tiff"}

\* an admitted file of type image/tif holding a valid TIFF stream was given
\* the basic-info record
TifGivenBasicInfo ==
    /\ Loaded /\ reading.type = ImageTif /\ IsSupported(reading)
    /\ Slice(reading.bytes, 0, 4) \in {<<73, 73, 42, 0>>, <<77, 77, 0, 42>>}
    /\ promise.method = "basic"
    /\ Has(Exif, "supportedExtraction") /\ ~Has(Exif, "format")

====
